---- MODULE Spec2Model ----
(***************************************************************************)
(* Model of the secure PDF ingestion pipeline of the financial document    *)
(* analyzer backend (backend/app/utils/file_validator.py and its caller).  *)
(*                                                                         *)
(* Byte strings and filenames are sequences of one-character strings, so   *)
(* that lower(), startswith() and the substring test are computed          *)
(* character by character as the Python code computes them.  The external  *)
(* libraries (python-magic, PyPDF2) are not part of the repository: what   *)
(* they return or raise for a buffer is an input of the model.             *)
(***************************************************************************)
EXTENDS Integers, Sequences, FiniteSets, TLC

VARIABLES
    file_content,       \* bytes handed to comprehensive_file_validation
    filename,           \* declared filename
    max_size_bytes,     \* size ceiling of the call
    strict_validation,  \* strict mode flag
    password,           \* Optional[str]
    magic_lib,          \* what magic.from_buffer does for these bytes
    pdf,                \* what PyPDF2.PdfReader does for these bytes
    phase,              \* "called" | "returned"
    result,             \* outcome of the call once returned
    settings,           \* configuration read by upload_document
    documents,          \* the financial_documents collection: id -> record
    disk,               \* paths of the files in the upload directory
    pc,                 \* where each request handler stands
    req,                \* local variables and response of each request
    document,           \* the FinancialDocument instance each caller holds
    clock,              \* datetime.now(timezone.utc)
    last                \* the last method call made on an instance

\* variables of a call of comprehensive_file_validation
callVars == <<file_content, filename, max_size_bytes, strict_validation, password,
              magic_lib, pdf, phase, result>>

\* variables of the request handlers and of the stored documents
storeVars == <<settings, documents, disk, pc, req, document, clock, last>>

vars == <<file_content, filename, max_size_bytes, strict_validation, password,
          magic_lib, pdf, phase, result,
          settings, documents, disk, pc, req, document, clock, last>>

-----------------------------------------------------------------------------
(* Bounds of the model *)

\* number of bytes of document structure (objects, xref table, trailer) that
\* follow the header and the patterns in a document of ordinary size
PadLen == 100

\* the same for a minimal document, which stays under 100 bytes in all
ShortPadLen == 60

\* last reading of the clock
MaxTime == 1

\* number of upload requests
MaxRequests == 2

-----------------------------------------------------------------------------
(* Python values *)

\* Optional[str]: None, or a str
None == [given |-> FALSE, text |-> ""]
Str(s) == [given |-> TRUE, text |-> s]

\* truth value of an Optional[str], as in "if password:"
Truthy(p) == p.given /\ p.text # ""

\* exceptions: class, message (the format string of the raise) and detail
NoExc == [cls |-> "none", msg |-> "", detail |-> ""]
Raise(c, m, d) == [cls |-> c, msg |-> m, detail |-> d]
Raised(e) == e.cls # "none"

FileValidationError(m) == Raise("FileValidationError", m, "")
MaliciousFileError(m) == Raise("MaliciousFileError", m, "")

UpperChars == <<"A","B","C","D","E","F","G","H","I","J","K","L","M",
                "N","O","P","Q","R","S","T","U","V","W","X","Y","Z">>
LowerChars == <<"a","b","c","d","e","f","g","h","i","j","k","l","m",
                "n","o","p","q","r","s","t","u","v","w","x","y","z">>

\* the lower-case letter of each upper-case ASCII letter
UpperToLower ==
    [c \in {UpperChars[i] : i \in 1..26} |->
        LowerChars[CHOOSE i \in 1..26 : UpperChars[i] = c]]

\* bytes.lower() / str.lower() on one ASCII character
LowerChar(c) == IF c \in DOMAIN UpperToLower THEN UpperToLower[c] ELSE c

\* s.lower()
lower(s) == [i \in 1..Len(s) |-> LowerChar(s[i])]

\* s.startswith(p)
startswith(s, p) ==
    /\ Len(p) <= Len(s)
    /\ \A j \in 1..Len(p) : s[j] = p[j]

\* p in s  (substring test)
contains(s, p) ==
    \E i \in 0..(Len(s) - Len(p)) : \A j \in 1..Len(p) : s[i + j] = p[j]

\* s.rfind(c): 1-based index of the last occurrence, 0 when absent
rfind(s, c) ==
    IF \E i \in 1..Len(s) : s[i] = c
    THEN CHOOSE i \in 1..Len(s) : s[i] = c /\ \A k \in (i + 1)..Len(s) : s[k] # c
    ELSE 0

-----------------------------------------------------------------------------
(* Module constants of file_validator.py *)

DANGEROUS_PDF_PATTERNS == <<
    <<"/","L","a","u","n","c","h">>,
    <<"<","s","c","r","i","p","t">>,
    <<"j","a","v","a","s","c","r","i","p","t",":">>,
    <<"/","S","u","b","m","i","t","F","o","r","m">>,
    <<"/","I","m","p","o","r","t","D","a","t","a">> >>

SUSPICIOUS_PDF_PATTERNS == <<
    <<"/","J","a","v","a","S","c","r","i","p","t">>,
    <<"/","J","S">>,
    <<"/","O","p","e","n","A","c","t","i","o","n">>,
    <<"/","A","A">>,
    <<"/","E","m","b","e","d","d","e","d","F","i","l","e">>,
    <<"/","X","F","A">>,
    <<"/","U","R","I">> >>

MAX_PDF_OBJECTS == 10000

PDF_MAGIC_NUMBERS == << <<"%","P","D","F","-","1",".">> >>

\* page ceiling of validate_pdf_structure
MAX_PDF_PAGES == 1000

\* smallest length detect_malicious_patterns lets through
MIN_PDF_BYTES == 100

\* longest filename validate_filename lets through
MAX_FILENAME_LEN == 255

-----------------------------------------------------------------------------
(* file_validator.py *)

\* validate_file_signature comparing the magic prefix without regard to case
validate_file_signature_ignore_case(content) ==
    IF Len(content) = 0
    THEN FileValidationError("Empty file content")
    ELSE IF \E k \in 1..Len(PDF_MAGIC_NUMBERS) :
                startswith(lower(content), lower(PDF_MAGIC_NUMBERS[k]))
    THEN NoExc
    ELSE FileValidationError("Invalid PDF file signature. File is not a valid PDF.")

\* validate_file_signature(file_content): the exception it raises, or NoExc
validate_file_signature(content) ==
    IF Len(content) = 0
    THEN FileValidationError("Empty file content")
    ELSE IF \E k \in 1..Len(PDF_MAGIC_NUMBERS) : startswith(content, PDF_MAGIC_NUMBERS[k])
    THEN NoExc
    ELSE FileValidationError("Invalid PDF file signature. File is not a valid PDF.")

allowed_mime_types ==
    {"application/pdf", "application/x-pdf", "application/x-bzpdf",
     "application/x-gzpdf", "application/acrobat", "applications/vnd.pdf",
     "text/pdf", "text/x-pdf"}

\* validate_mime_type raising for a type outside the allowed list; the raise
\* is inside the try, so it comes out as "Failed to validate file type"
validate_mime_type_reject_unusual(lib) ==
    IF lib.raises \/ lib.mime \notin allowed_mime_types
    THEN [exc |-> FileValidationError("Failed to validate file type"),
          warnings |-> {}, faults |-> IF lib.raises THEN {"magic"} ELSE {}]
    ELSE [exc |-> NoExc, warnings |-> {}, faults |-> {}]

\* validate_mime_type(file_content): magic.from_buffer either returns a MIME
\* type (lib.mime) or raises (lib.raises); a type outside the allowed list is
\* only logged
validate_mime_type(lib) ==
    IF lib.raises
    THEN [exc |-> FileValidationError("Failed to validate file type"),
          warnings |-> {}, faults |-> {"magic"}]
    ELSE [exc |-> NoExc,
          warnings |-> IF lib.mime \notin allowed_mime_types
                       THEN {"Unusual MIME type detected"} ELSE {},
          faults |-> {}]

\* indexes of the dangerous patterns found in the lower-cased content
DangerousFound(content) ==
    LET file_content_lower == lower(content) IN
    {k \in 1..Len(DANGEROUS_PDF_PATTERNS) :
        contains(file_content_lower, lower(DANGEROUS_PDF_PATTERNS[k]))}

\* suspicious_found of detect_malicious_patterns
SuspiciousFound(content) ==
    LET file_content_lower == lower(content) IN
    {k \in 1..Len(SUSPICIOUS_PDF_PATTERNS) :
        contains(file_content_lower, lower(SUSPICIOUS_PDF_PATTERNS[k]))}

\* detect_malicious_patterns blocking the suspicious patterns as well
detect_malicious_patterns_block_suspicious(content) ==
    LET file_content_lower == lower(content)
        all == DANGEROUS_PDF_PATTERNS \o SUSPICIOUS_PDF_PATTERNS
        found == {k \in 1..Len(all) : contains(file_content_lower, lower(all[k]))}
    IN
    IF found # {}
    THEN Raise("MaliciousFileError", "Potentially dangerous content detected: {pattern}",
               ToString(CHOOSE k \in found : \A m \in found : k <= m))
    ELSE IF Len(content) < MIN_PDF_BYTES
    THEN MaliciousFileError("File too small to be a valid PDF")
    ELSE NoExc

\* detect_malicious_patterns matching the patterns without lower-casing
detect_malicious_patterns_case_sensitive(content) ==
    LET found == {k \in 1..Len(DANGEROUS_PDF_PATTERNS) :
                    contains(content, DANGEROUS_PDF_PATTERNS[k])} IN
    IF found # {}
    THEN Raise("MaliciousFileError", "Potentially dangerous content detected: {pattern}",
               ToString(CHOOSE k \in found : \A m \in found : k <= m))
    ELSE IF Len(content) < MIN_PDF_BYTES
    THEN MaliciousFileError("File too small to be a valid PDF")
    ELSE NoExc

\* detect_malicious_patterns(file_content): raises for the first dangerous
\* pattern found, logs the suspicious ones, raises for a buffer under 100 bytes
detect_malicious_patterns(content) ==
    LET found == DangerousFound(content) IN
    IF found # {}
    THEN Raise("MaliciousFileError", "Potentially dangerous content detected: {pattern}",
               ToString(CHOOSE k \in found : \A m \in found : k <= m))
    ELSE IF Len(content) < MIN_PDF_BYTES
    THEN MaliciousFileError("File too small to be a valid PDF")
    ELSE NoExc

\* name of pathlib.Path(filename): the last component, "." components and
\* trailing separators dropped
RECURSIVE PathName(_)
PathName(s) ==
    IF Len(s) = 0 THEN <<>>
    ELSE IF s[Len(s)] = "/" THEN PathName(SubSeq(s, 1, Len(s) - 1))
    ELSE LET r == rfind(s, "/")
             comp == SubSeq(s, r + 1, Len(s))
         IN  IF comp = <<".">> THEN PathName(SubSeq(s, 1, r)) ELSE comp

\* pathlib.Path(filename).suffix
PathSuffix(s) ==
    LET name == PathName(s)
        r == rfind(name, ".")
    IN  IF 1 < r /\ r < Len(name) THEN SubSeq(name, r, Len(name)) ELSE <<>>

\* "NUL" stands for the character '\x00'
suspicious_chars == {"<", ">", ":", "\"", "|", "?", "*", "NUL"}

\* validate_filename(filename): the exception it raises, or NoExc
validate_filename(name) ==
    IF Len(name) = 0
    THEN FileValidationError("Filename cannot be empty")
    ELSE IF lower(PathSuffix(name)) # <<".","p","d","f">>
    THEN FileValidationError("Only PDF files are allowed")
    ELSE IF contains(name, <<".",".">>) \/ contains(name, <<"/">>) \/ contains(name, <<"\\">>)
    THEN FileValidationError("Invalid filename: path traversal detected")
    ELSE IF Len(name) > MAX_FILENAME_LEN
    THEN FileValidationError("Filename too long (max 255 characters)")
    ELSE IF \E i \in 1..Len(name) : name[i] \in suspicious_chars
    THEN FileValidationError("Filename contains invalid characters")
    ELSE NoExc

\* hashlib digest of the raw bytes: an uninterpreted term over the algorithm
\* and the bytes (the digest itself is not computed)
Digest(alg, content) == [alg |-> alg, of |-> content]

\* calculate_file_hash(file_content, algorithm)
calculate_file_hash(content, algorithm) ==
    IF algorithm = "sha256" THEN [exc |-> NoExc, hash |-> Digest("sha256", content)]
    ELSE IF algorithm = "md5" THEN [exc |-> NoExc, hash |-> Digest("md5", content)]
    ELSE [exc |-> Raise("ValueError", "Unsupported hash algorithm: {algorithm}", ""),
          hash |-> Digest("none", <<>>)]

-----------------------------------------------------------------------------
(* validate_pdf_structure *)

\* isinstance(e, Exception): every exception class raised here derives from it
IsException(e) == e.cls \in {"Exception", "PdfReadError", "ValueError",
                             "FileValidationError", "MaliciousFileError"}

\* pdf_reader.decrypt(password) inside its try: the library raises, or returns
\* a falsy value for a password that does not open the document, and the code
\* then raises "Invalid password" inside the same try
DecryptTry(pw, p) ==
    IF p.decrypt_raises THEN Raise("Exception", "", "decrypt error")
    ELSE IF pw.text = p.user_password THEN NoExc
    ELSE FileValidationError("Invalid password for encrypted PDF")

\* the encryption branch: "except Exception as e" around decrypt re-raises
\* whatever was raised in the try as "Failed to decrypt PDF: {e}"
EncryptionCheck(pw, p) ==
    IF ~p.is_encrypted THEN NoExc
    ELSE IF Truthy(pw)
    THEN LET e == DecryptTry(pw, p) IN
         IF IsException(e)
         THEN Raise("FileValidationError", "Failed to decrypt PDF: {e}",
                    IF e.msg # "" THEN e.msg ELSE e.detail)
         ELSE NoExc
    ELSE FileValidationError("Password is required for this encrypted PDF")

\* len(pdf_reader.pages) against the page ceiling
PageCheck(p) ==
    IF p.num_pages > MAX_PDF_PAGES
    THEN FileValidationError("PDF has too many pages ({num_pages}). Maximum allowed: 1000")
    ELSE NoExc

\* the body of the try around the trailer's /Size
ObjectCountTry(p) ==
    IF p.trailer = "no_size" THEN NoExc
    ELSE IF p.trailer = "unreadable" THEN Raise("Exception", "", "trailer error")
    ELSE IF p.size > MAX_PDF_OBJECTS
    THEN MaliciousFileError("PDF has too many objects ({obj_count}). Possible zip bomb.")
    ELSE NoExc

\* the object-count block with its handler: "except Exception" catches
\* everything raised in the try, logs a warning and lets validation proceed
ObjectCountCheck(p) ==
    LET e == ObjectCountTry(p) IN
    IF IsException(e)
    THEN [exc |-> NoExc, warnings |-> {"Could not validate PDF object count"}]
    ELSE [exc |-> e, warnings |-> {}]

\* the except clauses of validate_pdf_structure
StructureExcept(e) ==
    IF e.cls = "PdfReadError"
    THEN Raise("FileValidationError", "Invalid PDF structure: {e}", e.detail)
    ELSE IF e.cls \in {"MaliciousFileError", "FileValidationError"} THEN e
    ELSE IF IsException(e) THEN FileValidationError("Failed to validate PDF structure")
    ELSE e

StructureOut(e, checks, warnings, faults, prot) ==
    [exc |-> StructureExcept(e), is_password_protected |-> prot,
     checks |-> checks, warnings |-> warnings, faults |-> faults]

\* validate_pdf_structure(file_content, password); p is what PyPDF2 does
validate_pdf_structure(content, pw, p) ==
    LET opened == IF p.parse = "ok" THEN NoExc ELSE Raise(p.parse, "", "read error")
        enc == EncryptionCheck(pw, p)
        dfault == IF p.is_encrypted /\ Truthy(pw) /\ p.decrypt_raises
                  THEN {"decrypt"} ELSE {}
        pages == PageCheck(p)
        scan == detect_malicious_patterns(content)
        objs == ObjectCountCheck(p)
    IN
    IF Raised(opened)
    THEN StructureOut(opened, <<"parse">>, {},
                      IF p.parse = "Exception" THEN {"parser"} ELSE {}, FALSE)
    ELSE IF Raised(enc)
    THEN StructureOut(enc, <<"parse", "encryption">>, {}, dfault, p.is_encrypted)
    ELSE IF Raised(pages)
    THEN StructureOut(pages, <<"parse", "encryption", "pages">>, {}, {}, p.is_encrypted)
    ELSE IF Raised(scan)
    THEN StructureOut(scan, <<"parse", "encryption", "pages", "patterns">>, {}, {},
                      p.is_encrypted)
    ELSE StructureOut(objs.exc, <<"parse", "encryption", "pages", "patterns", "objects">>,
                      objs.warnings, {}, p.is_encrypted)

-----------------------------------------------------------------------------
(* comprehensive_file_validation *)

\* the except clauses of comprehensive_file_validation
ValidationExcept(e) ==
    IF e.cls \in {"FileValidationError", "MaliciousFileError"} THEN e
    ELSE IF IsException(e)
    THEN FileValidationError("File validation failed due to unexpected error")
    ELSE e

NoHash == Digest("none", <<>>)

Rejected(e, checks, warnings, faults) ==
    [accepted |-> FALSE, file_hash |-> NoHash, is_password_protected |-> FALSE,
     exc |-> ValidationExcept(e), checks |-> checks, warnings |-> warnings,
     faults |-> faults]

\* the size step rejecting a buffer of exactly the ceiling
SizeCheck_inclusive(content, max_size) ==
    IF Len(content) >= max_size
    THEN FileValidationError("File size exceeds {max_size_mb:.1f}MB limit")
    ELSE IF Len(content) = 0 THEN FileValidationError("File is empty")
    ELSE NoExc

\* step 2 of comprehensive_file_validation: over the ceiling, then empty
SizeCheck(content, max_size) ==
    IF Len(content) > max_size
    THEN FileValidationError("File size exceeds {max_size_mb:.1f}MB limit")
    ELSE IF Len(content) = 0 THEN FileValidationError("File is empty")
    ELSE NoExc

\* comprehensive_file_validation(file_content, filename, max_size_bytes,
\* strict_validation, password); lib and p are what python-magic and PyPDF2 do
comprehensive_file_validation(content, name, max_size, strict, pw, lib, p) ==
    LET fn == validate_filename(name)
        sz == SizeCheck(content, max_size)
        sig == validate_file_signature(content)
        mime == validate_mime_type(lib)
        st == validate_pdf_structure(content, pw, p)
        h == calculate_file_hash(content, "sha256")
        pre == <<"filename", "size", "empty", "signature">>
        upto == IF strict THEN pre \o <<"mime">> ELSE pre
        mwarn == IF strict THEN mime.warnings ELSE {}
    IN
    IF Raised(fn) THEN Rejected(fn, <<"filename">>, {}, {})
    ELSE IF Raised(sz)
    THEN Rejected(sz, IF Len(content) > max_size THEN <<"filename", "size">>
                      ELSE <<"filename", "size", "empty">>, {}, {})
    ELSE IF Raised(sig) THEN Rejected(sig, pre, {}, {})
    ELSE IF strict /\ Raised(mime.exc) THEN Rejected(mime.exc, upto, {}, mime.faults)
    ELSE IF Raised(st.exc)
    THEN Rejected(st.exc, upto \o st.checks, mwarn \cup st.warnings, st.faults)
    ELSE IF Raised(h.exc)
    THEN Rejected(h.exc, upto \o st.checks \o <<"hash">>, mwarn \cup st.warnings,
                  st.faults)
    ELSE [accepted |-> TRUE, file_hash |-> h.hash,
          is_password_protected |-> st.is_password_protected,
          exc |-> NoExc, checks |-> upto \o st.checks \o <<"hash">>,
          warnings |-> mwarn \cup st.warnings, faults |-> st.faults]

-----------------------------------------------------------------------------
(* models/document.py: FinancialDocument *)

\* Optional[datetime] and Optional[float]: None, or a number.  Times are clock
\* readings; confidence scores are counted in hundredths (0.85 is 85)
NoneNum == [given |-> FALSE, value |-> 0]
Num(v) == [given |-> TRUE, value |-> v]

\* Optional[str] whose text is a sequence of characters
NoText == [given |-> FALSE, text |-> <<>>]
Text(s) == [given |-> TRUE, text |-> s]

DocumentStatus == {"uploaded", "processing", "completed", "failed", "archived"}

\* confidence_score: Field(None, ge=0.0, le=1.0), in hundredths
SCORE_MIN == 0
SCORE_MAX == 100

\* processing_error: Field(None, max_length=1000)
MAX_ERROR_LEN == 1000

\* validate_file_size: 100 * 1024 * 1024
MAX_DOCUMENT_BYTES == 104857600

Whitespace == {" ", "\t", "\n"}

\* s.strip()
strip(s) ==
    LET idx == {i \in 1..Len(s) : s[i] \notin Whitespace} IN
    IF idx = {} THEN <<>>
    ELSE SubSeq(s, CHOOSE i \in idx : \A k \in idx : i <= k,
                   CHOOSE j \in idx : \A k \in idx : k <= j)

\* field validator of tags: empty tags dropped, the rest stripped and lower-cased
validate_tags(v) ==
    LET kept == SelectSeq(v, LAMBDA tag : Len(tag) > 0 /\ Len(strip(tag)) > 0) IN
    [i \in 1..Len(kept) |-> lower(strip(kept[i]))]

\* FinancialDocument(...) as upload_document constructs it; the other fields
\* take their defaults
FinancialDocument(id, name, user_id, file_path, file_size, file_hash, protected, now) ==
    [id |-> id,
     filename |-> name,
     user_id |-> user_id,
     file_path |-> file_path,
     file_size |-> file_size,
     file_hash |-> file_hash,
     status |-> "uploaded",
     processing_started_at |-> NoneNum,
     processing_completed_at |-> NoneNum,
     processing_error |-> NoText,
     extracted_text |-> NoText,
     analysis_results |-> {},
     confidence_score |-> NoneNum,
     is_password_protected |-> protected,
     password_required |-> protected,
     tags |-> <<>>,
     is_archived |-> FALSE,
     created_at |-> now]

\* FieldsValid without the upper bound of confidence_score
FieldsValid_no_upper_bound(doc) ==
    /\ Len(doc.filename) <= MAX_FILENAME_LEN
    /\ doc.file_size > 0
    /\ doc.file_size <= MAX_DOCUMENT_BYTES
    /\ doc.processing_error.given => Len(doc.processing_error.text) <= MAX_ERROR_LEN
    /\ doc.confidence_score.given => SCORE_MIN <= doc.confidence_score.value

\* the field constraints pydantic checks when the model is validated
FieldsValid(doc) ==
    /\ Len(doc.filename) <= MAX_FILENAME_LEN
    /\ doc.file_size > 0
    /\ doc.file_size <= MAX_DOCUMENT_BYTES
    /\ doc.processing_error.given => Len(doc.processing_error.text) <= MAX_ERROR_LEN
    /\ doc.confidence_score.given
        => (SCORE_MIN <= doc.confidence_score.value /\ doc.confidence_score.value <= SCORE_MAX)

\* document.save() with validate_on_save = True: the instance is validated
\* first; an invalid instance raises and nothing is written, a valid one is
\* written as validated (its tags cleaned)
save(self) ==
    IF FieldsValid(self)
    THEN [exc |-> NoExc, doc |-> [self EXCEPT !.tags = validate_tags(self.tags)]]
    ELSE [exc |-> Raise("ValidationError", "", "validate_on_save"), doc |-> self]

\* start_processing that keeps the previous processing_error
start_processing_keep_error(self, now) ==
    [self EXCEPT !.status = "processing",
                 !.processing_started_at = Num(now)]

\* the assignments of start_processing, before its save
start_processing(self, now) ==
    [self EXCEPT !.status = "processing",
                 !.processing_started_at = Num(now),
                 !.processing_error = NoText]

\* the assignments of complete_processing, before its save
complete_processing(self, analysis_results, confidence_score, extracted_text, now) ==
    LET done == [self EXCEPT !.status = "completed",
                             !.processing_completed_at = Num(now),
                             !.analysis_results = analysis_results,
                             !.confidence_score = Num(confidence_score),
                             !.processing_error = NoText]
    IN  IF extracted_text.given /\ Len(extracted_text.text) > 0
        THEN [done EXCEPT !.extracted_text = extracted_text]
        ELSE done

\* the assignments of fail_processing, before its save
fail_processing(self, error_message, now) ==
    [self EXCEPT !.status = "failed",
                 !.processing_completed_at = Num(now),
                 !.processing_error = Text(error_message)]

\* archive that also moves the status to "archived"
archive_sets_status(self) == [self EXCEPT !.is_archived = TRUE, !.status = "archived"]

\* the assignment of archive, before its save
archive(self) == [self EXCEPT !.is_archived = TRUE]

\* the assignment of unarchive, before its save
unarchive(self) == [self EXCEPT !.is_archived = FALSE]

\* the orders list(set) can give the elements of a set
Orderings(S) ==
    {q \in [1..Cardinality(S) -> S] : {q[i] : i \in 1..Cardinality(S)} = S}

\* the assignment of add_tags, before its save: the new tags are cleaned as
\* validate_tags cleans them, united with the current tags as a set, and the
\* set is made a list, in any order
add_tags(self, new_tags) ==
    LET cleaned_tags == validate_tags(new_tags)
        current_tags == {self.tags[i] : i \in 1..Len(self.tags)}
                            \cup {cleaned_tags[i] : i \in 1..Len(cleaned_tags)}
    IN  {[self EXCEPT !.tags = q] : q \in Orderings(current_tags)}

\* the assignment of remove_tags, before its save
remove_tags(self, tags_to_remove) ==
    LET tags_to_remove_set ==
            {lower(strip(tags_to_remove[i])) : i \in 1..Len(tags_to_remove)}
    IN  [self EXCEPT !.tags = SelectSeq(self.tags, LAMBDA tag : tag \notin tags_to_remove_set)]

\* processing_duration giving 0 when a time is missing
processing_duration_zero_when_missing(self) ==
    IF self.processing_started_at.given /\ self.processing_completed_at.given
    THEN Num(self.processing_completed_at.value - self.processing_started_at.value)
    ELSE Num(0)

\* the property processing_duration: the difference of the two times when both
\* are set (a datetime is truthy whatever its value), None otherwise
processing_duration(self) ==
    IF self.processing_started_at.given /\ self.processing_completed_at.given
    THEN Num(self.processing_completed_at.value - self.processing_started_at.value)
    ELSE NoneNum

-----------------------------------------------------------------------------
(* Inputs of a validation call *)

Magic == PDF_MAGIC_NUMBERS[1]

\* n bytes standing for the rest of the document; they hold no pattern
Filler(n) == [i \in 1..n |-> " "]

\* bodies placed after the header: nothing, each dangerous pattern as listed,
\* dangerous patterns in another case, each suspicious pattern, and pairs
Bodies ==
    {<<>>}
    \cup {DANGEROUS_PDF_PATTERNS[k] : k \in 1..Len(DANGEROUS_PDF_PATTERNS)}
    \cup {<<"/","L","A","U","N","C","H">>,
          <<"<","S","c","r","i","p","t">>,
          <<"/","i","m","p","o","r","t","d","a","t","a">>}
    \cup {SUSPICIOUS_PDF_PATTERNS[k] : k \in 1..Len(SUSPICIOUS_PDF_PATTERNS)}
    \cup {SUSPICIOUS_PDF_PATTERNS[1] \o <<":">>,
          SUSPICIOUS_PDF_PATTERNS[2] \o DANGEROUS_PDF_PATTERNS[1],
          SUSPICIOUS_PDF_PATTERNS[3] \o SUSPICIOUS_PDF_PATTERNS[4]}

Headers == {<<>>, Magic, <<"%","p","d","f","-","1",".">>}

\* no further bytes, a minimal document, a document of ordinary size
Pads == {0, ShortPadLen, PadLen}

Filenames ==
    {<<"r","e","p","o","r","t",".","p","d","f">>,
     <<"n","o","t","e","s",".","t","x","t">>}

\* a ceiling that the padded header meets exactly, and a larger one
MaxSizes == {Len(Magic) + PadLen, 2 * (Len(Magic) + PadLen)}

Passwords == {None, Str(""), Str("s3cret"), Str("wrong")}

MagicOutcomes ==
    {[raises |-> FALSE, mime |-> "application/pdf"],
     [raises |-> FALSE, mime |-> "application/octet-stream"],
     [raises |-> TRUE, mime |-> ""]}

\* PyPDF2 fails to read the buffer: PdfReadError, or another exception
PdfUnreadable ==
    {[parse |-> f, is_encrypted |-> FALSE, user_password |-> "",
      decrypt_raises |-> FALSE, num_pages |-> 0, trailer |-> "no_size", size |-> 0] :
        f \in {"PdfReadError", "Exception"}}

\* what PyPDF2 does with a buffer: fails to read it, or reads a document that
\* is or is not encrypted (with a user password, which may be empty; decrypt
\* may itself raise), has a page count and a trailer with no /Size, a /Size
\* that cannot be read, or a /Size
PdfOutcomes ==
    PdfUnreadable
    \cup
    {[parse |-> "ok", is_encrypted |-> e[1], user_password |-> e[2],
      decrypt_raises |-> e[3], num_pages |-> n, trailer |-> t[1], size |-> t[2]] :
        e \in {<<FALSE, "", FALSE>>, <<TRUE, "s3cret", FALSE>>,
               <<TRUE, "s3cret", TRUE>>, <<TRUE, "", FALSE>>},
        n \in {MAX_PDF_PAGES, MAX_PDF_PAGES + 1},
        t \in {<<"no_size", 0>>, <<"unreadable", 0>>,
               <<"size", MAX_PDF_OBJECTS>>, <<"size", MAX_PDF_OBJECTS + 1>>}}

NoResult ==
    [accepted |-> FALSE, file_hash |-> NoHash, is_password_protected |-> FALSE,
     exc |-> NoExc, checks |-> <<>>, warnings |-> {}, faults |-> {}]

\* a filename is a stem, then possibly one more piece, then an extension
\* ("SOH" stands for the control character '\x01', as "NUL" for '\x00')
FilenameStems ==
    {<<>>, <<"r","e","p","o","r","t">>,
     [i \in 1..(MAX_FILENAME_LEN - 4) |-> "a"],
     [i \in 1..(MAX_FILENAME_LEN - 3) |-> "a"]}

FilenameInserts ==
    {<<>>, <<".",".">>, <<"/">>, <<"\\">>, <<"NUL">>, <<"SOH">>, <<"\n">>, <<"\t">>,
     <<"?">>, <<"<">>, <<":">>, <<"*">>, <<" ">>}

FilenameExtensions ==
    {<<".","p","d","f">>, <<".","P","D","F">>, <<".","P","d","f">>,
     <<".","t","x","t">>, <<>>, <<".","p","d","f",".","e","x","e">>}

FilenameInputs ==
    {s \o m \o e : s \in FilenameStems, m \in FilenameInserts, e \in FilenameExtensions}

-----------------------------------------------------------------------------
(* Inputs of the lifecycle methods *)

\* confidence scores in hundredths: below 0, the ends of [0,1], 0.85, 0.92,
\* above 1
Scores == {0 - 1, SCORE_MIN, 85, 92, SCORE_MAX, SCORE_MAX + 1}

\* analysis_results dictionaries, as sets of <<key, value>>
ResultDicts == {{}, {<<"raw_output", "analysis">>}}

\* extracted_text: the request handlers pass None, or leave it out
ExtractedTexts == {NoText}

\* error messages: empty, "timeout", one of 1001 characters
ErrorMessages ==
    {<<>>, <<"t","i","m","e","o","u","t">>, [i \in 1..(MAX_ERROR_LEN + 1) |-> "x"]}

\* a document as upload_document stored it
UploadedDocument(protected, tags) ==
    [FinancialDocument(1, <<"r","e","p","o","r","t",".","p","d","f">>, "alice", 1,
                       Len(Magic) + PadLen, Digest("sha256", Magic \o Filler(PadLen)),
                       protected, 0)
        EXCEPT !.tags = tags]

\* no method called yet; of a call, its name, its caller, its arguments and
\* whether its save raised
NoCall ==
    [op |-> "none", caller |-> 0, raised |-> FALSE, analysis_results |-> {},
     confidence_score |-> 0, extracted_text |-> NoText, error_message |-> <<>>,
     user_id |-> "", file_hash |-> NoHash, returned |-> 0, tags |-> <<>>]

\* settings of a deployment that serves no upload
NoSettings ==
    [max_file_size |-> 0, skip_file_validation |-> FALSE,
     strict_pdf_validation |-> FALSE, run_crew |-> FALSE]

\* no request handler, no stored document
NoStore ==
    /\ settings = NoSettings
    /\ documents = <<>>
    /\ disk = {}
    /\ pc = <<>>
    /\ req = <<>>
    /\ document = <<>>
    /\ clock = 0
    /\ last = NoCall

\* no call of comprehensive_file_validation
NoCallOfValidation ==
    /\ file_content = <<>>
    /\ filename = <<>>
    /\ max_size_bytes = 0
    /\ strict_validation = FALSE
    /\ password = None
    /\ magic_lib = [raises |-> FALSE, mime |-> "application/pdf"]
    /\ pdf = [parse |-> "ok", is_encrypted |-> FALSE, user_password |-> "",
              decrypt_raises |-> FALSE, num_pages |-> 1, trailer |-> "no_size",
              size |-> 0]
    /\ phase = "returned"
    /\ result = NoResult

-----------------------------------------------------------------------------
(* One call of comprehensive_file_validation *)

\* a buffer that holds nothing after its header and patterns has no xref table
\* or trailer, and PyPDF2 cannot read it
InitValidation ==
    /\ \E h \in Headers, b \in Bodies, n \in Pads :
        /\ file_content = h \o b \o Filler(n)
        /\ pdf \in (IF n = 0 THEN PdfUnreadable ELSE PdfOutcomes)
    /\ filename \in Filenames
    /\ max_size_bytes \in MaxSizes
    /\ strict_validation \in BOOLEAN
    /\ password \in Passwords
    /\ magic_lib \in MagicOutcomes
    /\ phase = "called"
    /\ result = NoResult
    /\ NoStore

Validate ==
    /\ phase = "called"
    /\ result' = comprehensive_file_validation(file_content, filename, max_size_bytes,
                                               strict_validation, password, magic_lib, pdf)
    /\ phase' = "returned"
    /\ UNCHANGED <<file_content, filename, max_size_bytes, strict_validation,
                   password, magic_lib, pdf>>
    /\ UNCHANGED storeVars

NextValidation == Validate

SpecValidation == InitValidation /\ [][NextValidation]_vars

\* the same call over the filenames of FilenameInputs, on an empty buffer and
\* on a readable, unencrypted one-page PDF
InitFilename ==
    /\ filename \in FilenameInputs
    /\ file_content \in {<<>>, Magic \o Filler(PadLen)}
    /\ pdf = [parse |-> "ok", is_encrypted |-> FALSE, user_password |-> "",
              decrypt_raises |-> FALSE, num_pages |-> 1, trailer |-> "no_size",
              size |-> 0]
    /\ max_size_bytes = 2 * (Len(Magic) + PadLen)
    /\ strict_validation \in BOOLEAN
    /\ password = None
    /\ magic_lib = [raises |-> FALSE, mime |-> "application/pdf"]
    /\ phase = "called"
    /\ result = NoResult
    /\ NoStore

SpecFilename == InitFilename /\ [][NextValidation]_vars

-----------------------------------------------------------------------------
(* Method calls on a stored document *)

\* the store after a save of instance doc: written under its id (an upsert)
Stored(doc) ==
    [id \in DOMAIN documents \cup {doc.id} |->
        IF id = doc.id THEN doc ELSE documents[id]]

\* caller c calls a method on the instance it holds: obj is the instance after
\* the method's assignments; the method ends with save()
MethodCall(c, op, obj, args) ==
    LET r == save(obj) IN
    /\ document' = [document EXCEPT ![c] = r.doc]
    /\ documents' = IF Raised(r.exc) THEN documents ELSE Stored(r.doc)
    /\ last' = [args EXCEPT !.op = op, !.caller = c, !.raised = Raised(r.exc)]
    /\ UNCHANGED <<settings, disk, pc, req, clock>>
    /\ UNCHANGED callVars

StartProcessing(c) ==
    MethodCall(c, "start_processing", start_processing(document[c], clock), NoCall)

CompleteProcessing(c, analysis_results, confidence_score, extracted_text) ==
    MethodCall(c, "complete_processing",
               complete_processing(document[c], analysis_results, confidence_score,
                                   extracted_text, clock),
               [NoCall EXCEPT !.analysis_results = analysis_results,
                            !.confidence_score = confidence_score,
                            !.extracted_text = extracted_text])

FailProcessing(c, error_message) ==
    MethodCall(c, "fail_processing", fail_processing(document[c], error_message, clock),
               [NoCall EXCEPT !.error_message = error_message])

Archive(c) == MethodCall(c, "archive", archive(document[c]), NoCall)

Unarchive(c) == MethodCall(c, "unarchive", unarchive(document[c]), NoCall)

\* FinancialDocument.find_by_id: the caller takes a fresh instance of the
\* stored record
Reload(c) ==
    /\ document[c] # documents[document[c].id]
    /\ document' = [document EXCEPT ![c] = documents[document[c].id]]
    /\ last' = [NoCall EXCEPT !.op = "find_by_id", !.caller = c]
    /\ UNCHANGED <<settings, documents, disk, pc, req, clock>>
    /\ UNCHANGED callVars

\* time passes
Tick ==
    /\ clock < MaxTime
    /\ clock' = clock + 1
    /\ last' = [NoCall EXCEPT !.op = "tick"]
    /\ UNCHANGED <<settings, documents, disk, pc, req, document>>
    /\ UNCHANGED callVars

InitLifecycle ==
    /\ NoCallOfValidation
    /\ settings = NoSettings
    /\ documents = [id \in {1} |-> UploadedDocument(FALSE, << <<"q","1">> >>)]
    /\ document = [c \in {1} |-> documents[1]]
    /\ last = NoCall
    /\ disk = {1}
    /\ pc = <<>>
    /\ req = <<>>
    /\ clock = 0

NextLifecycle ==
    \/ StartProcessing(1)
    \/ \E a \in ResultDicts, s \in Scores, t \in ExtractedTexts :
            CompleteProcessing(1, a, s, t)
    \/ \E m \in ErrorMessages : FailProcessing(1, m)
    \/ Archive(1)
    \/ Unarchive(1)
    \/ Reload(1)
    \/ Tick

SpecLifecycle == InitLifecycle /\ [][NextLifecycle]_vars

-----------------------------------------------------------------------------
(* The tags of a stored document *)

\* tags as clients send them: empty, blank, padded upper case, clean
RawTags == {<<>>, <<" ">>, <<" ", "Q", "1", " ">>, <<"q", "1">>, <<"F", "Y">>}

\* tag lists of up to two tags
TagLists == {<<>>} \cup {<<t>> : t \in RawTags} \cup {<<t, u>> : t \in RawTags, u \in RawTags}

AddTags(c, new_tags) ==
    \E obj \in add_tags(document[c], new_tags) :
        MethodCall(c, "add_tags", obj, [NoCall EXCEPT !.tags = new_tags])

RemoveTags(c, tags_to_remove) ==
    MethodCall(c, "remove_tags", remove_tags(document[c], tags_to_remove),
               [NoCall EXCEPT !.tags = tags_to_remove])

\* a document created with a tag list: the field validator cleans it
InitTags ==
    /\ NoCallOfValidation
    /\ settings = NoSettings
    /\ \E v \in TagLists :
            documents = [id \in {1} |-> UploadedDocument(FALSE, validate_tags(v))]
    /\ document = [c \in {1} |-> documents[1]]
    /\ last = NoCall
    /\ disk = {1}
    /\ pc = <<>>
    /\ req = <<>>
    /\ clock = 0

NextTags ==
    \/ \E new_tags \in TagLists : AddTags(1, new_tags)
    \/ \E tags_to_remove \in TagLists : RemoveTags(1, tags_to_remove)

SpecTags == InitTags /\ [][NextTags]_vars

-----------------------------------------------------------------------------
(* routers/documents.py: upload_document *)

Requests == 1..MaxRequests

Owners == {"alice", "bob"}

ReadablePdf ==
    [parse |-> "ok", is_encrypted |-> FALSE, user_password |-> "",
     decrypt_raises |-> FALSE, num_pages |-> 1, trailer |-> "size", size |-> 10]

PdfSniffed == [raises |-> FALSE, mime |-> "application/pdf"]

ReportPdf == <<"r","e","p","o","r","t",".","p","d","f">>

\* the ceiling settings.max_file_size_mb * 1024 * 1024, in bytes
UploadCeiling == 2 * (Len(Magic) + PadLen)

UploadFile(name, content, pw, p) ==
    [filename |-> name, content |-> content, password |-> pw, magic_lib |-> PdfSniffed,
     pdf |-> p]

\* the files clients upload: a clean PDF, the same bytes under another name and
\* under a .txt name, a second clean PDF, a wrong signature, a hard-block
\* pattern, an encrypted PDF sent without password, an empty file, a file over
\* the ceiling
UploadFiles ==
    [clean |-> UploadFile(ReportPdf, Magic \o Filler(PadLen), None, ReadablePdf),
     copy |-> UploadFile(<<"c","o","p","y",".","p","d","f">>, Magic \o Filler(PadLen),
                         None, ReadablePdf),
     txtname |-> UploadFile(<<"n","o","t","e","s",".","t","x","t">>,
                            Magic \o Filler(PadLen), None, ReadablePdf),
     other |-> UploadFile(ReportPdf, Magic \o SUSPICIOUS_PDF_PATTERNS[2] \o Filler(PadLen),
                          None, ReadablePdf),
     badsig |-> UploadFile(ReportPdf, <<"%","p","d","f","-","1",".">> \o Filler(PadLen),
                           None, ReadablePdf),
     launch |-> UploadFile(ReportPdf,
                           Magic \o DANGEROUS_PDF_PATTERNS[1] \o Filler(PadLen),
                           None, ReadablePdf),
     encrypted |-> UploadFile(ReportPdf,
                              Magic \o <<"/","E","n","c","r","y","p","t">> \o Filler(PadLen),
                              None,
                              [ReadablePdf EXCEPT !.is_encrypted = TRUE,
                                                  !.user_password = "s3cret"]),
     empty |-> UploadFile(ReportPdf, <<>>, None,
                          [ReadablePdf EXCEPT !.parse = "PdfReadError"]),
     oversize |-> UploadFile(ReportPdf, Magic \o Filler(UploadCeiling), None, ReadablePdf)]

FileKeys == DOMAIN UploadFiles

\* what the analyzer does with a stored file: returns text, returns text that
\* holds VALIDATION_FAILED, or raises with a message
AnalyzerOutcomes ==
    {[kind |-> "text", message |-> <<>>], [kind |-> "VALIDATION_FAILED", message |-> <<>>]}
    \cup {[kind |-> "raises", message |-> m] : m \in ErrorMessages}

NOT_FINANCIAL ==
    <<"D","o","c","u","m","e","n","t"," ","i","s"," ","n","o","t"," ","a"," ",
      "v","a","l","i","d"," ","f","i","n","a","n","c","i","a","l"," ",
      "d","o","c","u","m","e","n","t">>

\* confidence_score = 0.85, in hundredths
DEFAULT_CONFIDENCE == 85

NoRequest ==
    [user_id |-> "", file |-> "clean", auto_analyze |-> FALSE, file_hash |-> NoHash,
     is_password_protected |-> FALSE, file_path |-> 0, status_code |-> 0, detail |-> "",
     saw |-> {}]

NoInstance == FinancialDocument(0, <<>>, "", 0, 0, NoHash, FALSE, 0)

\* the validation step of upload_document proceeding also when
\* comprehensive_file_validation raised MaliciousFileError
ValidationStep_ignore_malicious(f) ==
    IF settings.skip_file_validation
    THEN IF Len(f.content) > settings.max_file_size
         THEN [status_code |-> 500, detail |-> "File validation failed due to server error",
               file_hash |-> NoHash, is_password_protected |-> FALSE]
         ELSE [status_code |-> 0, detail |-> "",
               file_hash |-> Digest("sha256", f.content), is_password_protected |-> FALSE]
    ELSE LET v == comprehensive_file_validation(f.content, f.filename,
                      settings.max_file_size, settings.strict_pdf_validation,
                      f.password, f.magic_lib, f.pdf)
         IN  IF v.exc.cls = "FileValidationError"
             THEN [status_code |-> 400, detail |-> v.exc.msg,
                   file_hash |-> NoHash, is_password_protected |-> FALSE]
             ELSE [status_code |-> 0, detail |-> "",
                   file_hash |-> Digest("sha256", f.content),
                   is_password_protected |-> v.is_password_protected]

\* lines 131-178: the first try of upload_document.  With skip_file_validation
\* only the size is tested, and the HTTPException raised for it inside the try
\* is caught by "except Exception" and answered 500; otherwise
\* comprehensive_file_validation decides.  status_code 0: the handler goes on
ValidationStep(f) ==
    IF settings.skip_file_validation
    THEN IF Len(f.content) > settings.max_file_size
         THEN [status_code |-> 500, detail |-> "File validation failed due to server error",
               file_hash |-> NoHash, is_password_protected |-> FALSE]
         ELSE [status_code |-> 0, detail |-> "",
               file_hash |-> Digest("sha256", f.content), is_password_protected |-> FALSE]
    ELSE LET v == comprehensive_file_validation(f.content, f.filename,
                      settings.max_file_size, settings.strict_pdf_validation,
                      f.password, f.magic_lib, f.pdf)
         IN  IF v.exc.cls = "FileValidationError"
             THEN [status_code |-> 400, detail |-> v.exc.msg,
                   file_hash |-> NoHash, is_password_protected |-> FALSE]
             ELSE IF v.exc.cls = "MaliciousFileError"
             THEN [status_code |-> 400, detail |-> "Security violation: {e}",
                   file_hash |-> NoHash, is_password_protected |-> FALSE]
             ELSE IF Raised(v.exc)
             THEN [status_code |-> 500,
                   detail |-> "File validation failed due to server error",
                   file_hash |-> NoHash, is_password_protected |-> FALSE]
             ELSE [status_code |-> 0, detail |-> "", file_hash |-> v.file_hash,
                   is_password_protected |-> v.is_password_protected]

\* the duplicate query looking at completed documents only
FindDuplicate_completed_only(file_hash, user_id) ==
    {id \in DOMAIN documents :
        /\ documents[id].file_hash = file_hash
        /\ documents[id].user_id = user_id
        /\ documents[id].status = "completed"}

\* the duplicate query matching on the hash alone
FindDuplicate_any_owner(file_hash, user_id) ==
    {id \in DOMAIN documents : documents[id].file_hash = file_hash}

\* lines 184-187: find_one(file_hash == ..., user_id == ...): the ids of the
\* stored documents the query can return
FindDuplicate(file_hash, user_id) ==
    {id \in DOMAIN documents :
        documents[id].file_hash = file_hash /\ documents[id].user_id = user_id}

\* the handler of request r answers and ends
Respond(r, code, detail) ==
    /\ req' = [req EXCEPT ![r].status_code = code, ![r].detail = detail]
    /\ pc' = [pc EXCEPT ![r] = "done"]

\* lines 303-316: "except Exception" of the second try: the file is removed if
\* file_path is set and the file exists, and the answer is 500
FailUpload(r) ==
    /\ disk' = disk \ {req[r].file_path}
    /\ Respond(r, 500, "Failed to upload document")

\* lines 126-178: the request arrives, its body is read and validated
UploadReceive(r, user_id, key, auto_analyze) ==
    /\ pc[r] = "idle"
    /\ LET v == ValidationStep(UploadFiles[key])
           got == [NoRequest EXCEPT !.user_id = user_id, !.file = key,
                                    !.auto_analyze = auto_analyze,
                                    !.file_hash = v.file_hash,
                                    !.is_password_protected = v.is_password_protected,
                                    !.status_code = v.status_code,
                                    !.detail = v.detail]
       IN  /\ req' = [req EXCEPT ![r] = got]
           /\ pc' = [pc EXCEPT ![r] = IF v.status_code = 0 THEN "validated" ELSE "done"]
    /\ UNCHANGED <<settings, documents, disk, document, clock, last>>
    /\ UNCHANGED callVars

\* lines 183-203: the duplicate query; without a match the path of the new
\* file is made (a fresh uuid: here the number of the request).  saw notes
\* which records were stored when the query ran
UploadCheckDuplicate(r) ==
    /\ pc[r] = "validated"
    /\ IF FindDuplicate(req[r].file_hash, req[r].user_id) # {}
       THEN /\ req' = [req EXCEPT ![r].status_code = 409,
                                  ![r].detail = "This file has already been uploaded",
                                  ![r].saw = DOMAIN documents]
            /\ pc' = [pc EXCEPT ![r] = "done"]
       ELSE /\ req' = [req EXCEPT ![r].file_path = r, ![r].saw = DOMAIN documents]
            /\ pc' = [pc EXCEPT ![r] = "checked"]
    /\ UNCHANGED <<settings, documents, disk, document, clock, last>>
    /\ UNCHANGED callVars

\* lines 205-223: the file is written and the FinancialDocument instance is
\* constructed; a failed write, or an instance that fails the field
\* constraints, ends in the cleanup of lines 303-316
UploadWriteFile(r, written) ==
    /\ pc[r] = "checked"
    /\ LET f == UploadFiles[req[r].file]
           doc == FinancialDocument(r, f.filename, req[r].user_id, req[r].file_path,
                                    Len(f.content), req[r].file_hash,
                                    req[r].is_password_protected, clock)
       IN  IF written /\ FieldsValid(doc)
           THEN /\ disk' = disk \cup {req[r].file_path}
                /\ document' = [document EXCEPT ![r] = doc]
                /\ pc' = [pc EXCEPT ![r] = "written"]
                /\ UNCHANGED req
           ELSE /\ FailUpload(r)
                /\ UNCHANGED document
    /\ UNCHANGED <<settings, documents, clock, last>>
    /\ UNCHANGED callVars

\* line 226: await document.save(); a save that raises ends in the cleanup
UploadSaveRecord(r, saved) ==
    /\ pc[r] = "written"
    /\ IF saved
       THEN /\ documents' = Stored(save(document[r]).doc)
            /\ pc' = [pc EXCEPT ![r] = "saved"]
            /\ UNCHANGED <<req, disk>>
       ELSE /\ FailUpload(r)
            /\ UNCHANGED documents
    /\ UNCHANGED <<settings, document, clock, last>>
    /\ UNCHANGED callVars

\* lines 231-236: auto-analysis starts with start_processing (its save does
\* not raise: the instance is the valid one just saved)
UploadStartAnalysis(r) ==
    /\ pc[r] = "saved"
    /\ req[r].auto_analyze /\ settings.run_crew
    /\ LET s == save(start_processing(document[r], clock)) IN
       /\ document' = [document EXCEPT ![r] = s.doc]
       /\ documents' = Stored(s.doc)
    /\ pc' = [pc EXCEPT ![r] = "analyzing"]
    /\ UNCHANGED <<settings, disk, req, clock, last>>
    /\ UNCHANGED callVars

\* lines 238-283: the analyzer returns or raises and the outcome is recorded:
\* fail_processing for VALIDATION_FAILED, complete_processing otherwise, and
\* fail_processing(str(error)) in the except clause when the analyzer raised;
\* a save that raises in the except clause reaches the cleanup of lines
\* 303-316.  (The saves of the try do not raise: the instance was valid when
\* constructed, and the score and message written here are valid.)
UploadRecordAnalysis(r, outcome) ==
    /\ pc[r] = "analyzing"
    /\ LET recorded ==
            IF outcome.kind = "text"
            THEN save(complete_processing(document[r], {<<"raw_output", "analysis">>},
                                          DEFAULT_CONFIDENCE, NoText, clock))
            ELSE IF outcome.kind = "VALIDATION_FAILED"
            THEN save(fail_processing(document[r], NOT_FINANCIAL, clock))
            ELSE save(fail_processing(document[r], outcome.message, clock))
       IN  /\ document' = [document EXCEPT ![r] = recorded.doc]
           /\ documents' = IF Raised(recorded.exc) THEN documents ELSE Stored(recorded.doc)
           /\ IF Raised(recorded.exc)
              THEN FailUpload(r)
              ELSE /\ pc' = [pc EXCEPT ![r] = "analyzed"]
                   /\ UNCHANGED <<req, disk>>
    /\ UNCHANGED <<settings, clock, last>>
    /\ UNCHANGED callVars

\* lines 285-298: the record is read again and the answer is made from it; a
\* record that is not found makes document None, the answer raises and the
\* cleanup of lines 303-316 runs
UploadRespond(r) ==
    /\ pc[r] = IF req[r].auto_analyze /\ settings.run_crew THEN "analyzed" ELSE "saved"
    /\ IF r \in DOMAIN documents
       THEN /\ document' = [document EXCEPT ![r] = documents[r]]
            /\ Respond(r, 200, documents[r].status)
            /\ UNCHANGED disk
       ELSE /\ FailUpload(r)
            /\ UNCHANGED document
    /\ UNCHANGED <<settings, documents, clock, last>>
    /\ UNCHANGED callVars

InitUpload ==
    /\ NoCallOfValidation
    /\ settings \in [max_file_size : {UploadCeiling},
                     skip_file_validation : BOOLEAN,
                     strict_pdf_validation : BOOLEAN,
                     run_crew : {TRUE}]
    /\ documents = <<>>
    /\ disk = {}
    /\ pc = [r \in Requests |-> "idle"]
    /\ req = [r \in Requests |-> NoRequest]
    /\ document = [r \in Requests |-> NoInstance]
    /\ clock = 0
    /\ last = NoCall

\* the steps of a request that store the file and the record, and answer
UploadStoreStep(r) ==
    \/ UploadCheckDuplicate(r)
    \/ \E written \in BOOLEAN : UploadWriteFile(r, written)
    \/ \E saved \in BOOLEAN : UploadSaveRecord(r, saved)
    \/ UploadRespond(r)

\* the steps of the automatic analysis of a request
UploadAnalysisStep(r) ==
    \/ UploadStartAnalysis(r)
    \/ \E outcome \in AnalyzerOutcomes : UploadRecordAnalysis(r, outcome)

\* requests are numbered in the order of their arrival
UploadArrives(r, auto_analyze) ==
    /\ \A q \in Requests : q < r => pc[q] # "idle"
    /\ \E user_id \in Owners, key \in FileKeys :
            UploadReceive(r, user_id, key, auto_analyze)

\* requests without auto_analyze served concurrently: their steps interleave
\* at every await
NextUpload ==
    \E r \in Requests : UploadArrives(r, FALSE) \/ UploadStoreStep(r)

SpecUpload == InitUpload /\ [][NextUpload]_vars

\* a request arrives only when no other request is being served
NoneInFlight == \A q \in Requests : pc[q] \in {"idle", "done"}

NextSequentialUpload ==
    \E r \in Requests :
        \/ NoneInFlight /\ \E auto_analyze \in BOOLEAN : UploadArrives(r, auto_analyze)
        \/ UploadStoreStep(r)
        \/ UploadAnalysisStep(r)

SpecSequentialUpload == InitUpload /\ [][NextSequentialUpload]_vars

-----------------------------------------------------------------------------
(* routers/documents.py: get_document, analyze_document, delete_document *)

\* the users who send requests: the owner of the stored document, another
\* user, and an administrator
Users ==
    {[id |-> "alice", role |-> "viewer"], [id |-> "bob", role |-> "viewer"],
     [id |-> "root", role |-> "admin"]}

\* models/user.py: the property is_admin
is_admin(current_user) == current_user.role = "admin"

\* current_user.is_admin(): is_admin is a property, so the expression calls
\* the bool the property gives, and raises TypeError
is_admin_called(current_user) ==
    [exc |-> Raise("TypeError", "'bool' object is not callable", ""),
     value |-> is_admin(current_user)]

\* "if document.user_id != str(current_user.id) and not
\* current_user.is_admin(): raise HTTPException(403)": the status the check
\* answers with, 0 when the handler goes on.  The right operand of "and" is
\* evaluated only for a user who is not the owner; its TypeError reaches the
\* handler's "except Exception", which answers 500
AccessCheck(doc, current_user) ==
    IF doc.user_id # current_user.id
    THEN LET admin == is_admin_called(current_user) IN
         IF Raised(admin.exc) THEN 500
         ELSE IF ~admin.value THEN 403
         ELSE 0
    ELSE 0

\* str(HTTPException(400, detail)): the empty string with a starlette whose
\* HTTPException has no __str__, "status: detail" with one that has
StrOfValidationFailed ==
    {<<>>,
     <<"4","0","0",":"," ","D","o","c","u","m","e","n","t"," ","v","a","l","i",
      "d","a","t","i","o","n"," ","f","a","i","l","e","d",":"," ","N","o","t",
      " ","a"," ","f","i","n","a","n","c","i","a","l"," ","d","o","c","u","m",
      "e","n","t">>}

\* a request slot before its request arrives
NoHandlerRequest ==
    [op |-> "none", user_id |-> "", role |-> "", outcome |-> "none",
     error_msg |-> <<>>, removal |-> "none", db_raised |-> FALSE, status_code |-> 0,
     detail |-> ""]

\* request r of current_user arrives at a handler: slots are numbered in the
\* order of arrival
Arrived(r, op, current_user) ==
    [NoHandlerRequest EXCEPT !.op = op, !.user_id = current_user.id,
                             !.role = current_user.role]

\* the handler of request r answers and ends
Answer(r, request, code, detail) ==
    /\ req' = [req EXCEPT ![r] = [request EXCEPT !.status_code = code, !.detail = detail]]
    /\ pc' = [pc EXCEPT ![r] = "done"]

\* lines 327-364: get_document
GetDocument(r, current_user) ==
    /\ pc[r] = "idle"
    /\ \A q \in Requests : q < r => pc[q] # "idle"
    /\ LET request == Arrived(r, "get", current_user) IN
       IF 1 \notin DOMAIN documents
       THEN /\ Answer(r, request, 404, "Document not found")
            /\ UNCHANGED document
       ELSE LET denied == AccessCheck(documents[1], current_user) IN
            IF denied = 500
            THEN /\ Answer(r, request, 500, "Failed to retrieve document")
                 /\ UNCHANGED document
            ELSE IF denied = 403
            THEN /\ Answer(r, request, 403, "Access denied")
                 /\ UNCHANGED document
            ELSE /\ Answer(r, request, 200, documents[1].status)
                 /\ document' = [document EXCEPT ![r] = documents[1]]
    /\ UNCHANGED <<settings, documents, disk, clock, last>>
    /\ UNCHANGED callVars

\* lines 384-415: analyze_document reads the document and makes its checks
AnalyzeLoad(r, current_user) ==
    /\ pc[r] = "idle"
    /\ \A q \in Requests : q < r => pc[q] # "idle"
    /\ LET request == Arrived(r, "analyze", current_user) IN
       IF 1 \notin DOMAIN documents
       THEN /\ Answer(r, request, 404, "Document not found")
            /\ UNCHANGED document
       ELSE LET denied == AccessCheck(documents[1], current_user) IN
            IF denied = 500
            THEN /\ Answer(r, request, 500, "Failed to analyze document")
                 /\ UNCHANGED document
            ELSE IF denied = 403
            THEN /\ Answer(r, request, 403, "Access denied")
                 /\ UNCHANGED document
            ELSE IF ~settings.run_crew
            THEN /\ Answer(r, request, 503, "CrewAI analysis service is not available")
                 /\ UNCHANGED document
            ELSE IF documents[1].file_path \notin disk
            THEN /\ Answer(r, request, 404, "Document file not found on server")
                 /\ UNCHANGED document
            ELSE /\ req' = [req EXCEPT ![r] = request]
                 /\ pc' = [pc EXCEPT ![r] = "loaded"]
                 /\ document' = [document EXCEPT ![r] = documents[1]]
    /\ UNCHANGED <<settings, documents, disk, clock, last>>
    /\ UNCHANGED callVars

\* lines 417-418: await document.start_processing(): no status is tested
AnalyzeStartProcessing(r) ==
    /\ pc[r] = "loaded"
    /\ LET s == save(start_processing(document[r], clock)) IN
       /\ document' = [document EXCEPT ![r] = s.doc]
       /\ documents' = Stored(s.doc)
    /\ pc' = [pc EXCEPT ![r] = "analyzing"]
    /\ UNCHANGED <<settings, disk, req, clock, last>>
    /\ UNCHANGED callVars

\* lines 420-483: the analyzer returns or raises.  A result is stored with
\* complete_processing and answered 200.  VALIDATION_FAILED is stored with
\* fail_processing, and the HTTPException(400) raised next, inside the try, is
\* caught by "except Exception as analysis_error" like an error of the
\* analyzer: error_msg is str(analysis_error)
AnalyzeRecord(r, outcome) ==
    /\ pc[r] = "analyzing"
    /\ IF outcome.kind = "text"
       THEN LET done == save(complete_processing(document[r],
                                                 {<<"raw_output", "analysis">>},
                                                 DEFAULT_CONFIDENCE, NoText, clock))
            IN  /\ document' = [document EXCEPT ![r] = done.doc]
                /\ documents' = Stored(done.doc)
                /\ Answer(r, [req[r] EXCEPT !.outcome = outcome.kind], 200, "completed")
       ELSE IF outcome.kind = "VALIDATION_FAILED"
       THEN LET failed == save(fail_processing(document[r], NOT_FINANCIAL, clock)) IN
            /\ document' = [document EXCEPT ![r] = failed.doc]
            /\ documents' = Stored(failed.doc)
            /\ \E error_msg \in StrOfValidationFailed :
                    req' = [req EXCEPT ![r].outcome = outcome.kind,
                                       ![r].error_msg = error_msg]
            /\ pc' = [pc EXCEPT ![r] = "failing"]
       ELSE /\ req' = [req EXCEPT ![r].outcome = outcome.kind,
                                  ![r].error_msg = outcome.message]
            /\ pc' = [pc EXCEPT ![r] = "failing"]
            /\ UNCHANGED <<document, documents>>
    /\ UNCHANGED <<settings, disk, clock, last>>
    /\ UNCHANGED callVars

\* lines 485-503: the except clause: fail_processing(error_msg), then 500; a
\* save that raises there leaves the except clause for the outer "except
\* Exception", which answers 500 too
AnalyzeFail(r) ==
    /\ pc[r] = "failing"
    /\ LET failed == save(fail_processing(document[r], req[r].error_msg, clock)) IN
       /\ document' = [document EXCEPT ![r] = failed.doc]
       /\ IF Raised(failed.exc)
          THEN /\ UNCHANGED documents
               /\ Answer(r, req[r], 500, "Failed to analyze document")
          ELSE /\ documents' = Stored(failed.doc)
               /\ Answer(r, req[r], 500, "Analysis failed: {error_msg}")
    /\ UNCHANGED <<settings, disk, clock, last>>
    /\ UNCHANGED callVars

\* the file removal of delete_document letting the error of os.remove out
RemoveFile_raises(file_path, removal) ==
    IF file_path \notin disk
    THEN [exc |-> NoExc, disk |-> disk, removal |-> "no_file"]
    ELSE IF removal = "raises"
    THEN [exc |-> Raise("OSError", "", "os.remove"), disk |-> disk, removal |-> "raises"]
    ELSE [exc |-> NoExc, disk |-> disk \ {file_path}, removal |-> "removed"]

\* lines 533-540: the file is removed if it exists; an error of os.remove is
\* logged and swallowed
RemoveFile(file_path, removal) ==
    IF file_path \notin disk
    THEN [exc |-> NoExc, disk |-> disk, removal |-> "no_file"]
    ELSE IF removal = "raises"
    THEN [exc |-> NoExc, disk |-> disk, removal |-> "raises"]
    ELSE [exc |-> NoExc, disk |-> disk \ {file_path}, removal |-> "removed"]

\* lines 514-540: delete_document reads the document, makes its check and
\* removes the file
DeleteRemoveFile(r, current_user, removal) ==
    /\ pc[r] = "idle"
    /\ \A q \in Requests : q < r => pc[q] # "idle"
    /\ LET request == Arrived(r, "delete", current_user) IN
       IF 1 \notin DOMAIN documents
       THEN /\ Answer(r, request, 404, "Document not found")
            /\ UNCHANGED <<document, disk>>
       ELSE LET denied == AccessCheck(documents[1], current_user) IN
            IF denied = 500
            THEN /\ Answer(r, request, 500, "Failed to delete document")
                 /\ UNCHANGED <<document, disk>>
            ELSE IF denied = 403
            THEN /\ Answer(r, request, 403, "Access denied")
                 /\ UNCHANGED <<document, disk>>
            ELSE LET removed == RemoveFile(documents[1].file_path, removal) IN
                 IF Raised(removed.exc)
                 THEN /\ Answer(r, [request EXCEPT !.removal = removed.removal], 500,
                                "Failed to delete document")
                      /\ UNCHANGED <<document, disk>>
                 ELSE /\ disk' = removed.disk
                      /\ req' = [req EXCEPT ![r] = [request EXCEPT !.removal = removed.removal]]
                      /\ pc' = [pc EXCEPT ![r] = "deleting"]
                      /\ document' = [document EXCEPT ![r] = documents[1]]
    /\ UNCHANGED <<settings, documents, clock, last>>
    /\ UNCHANGED callVars

\* lines 542-559: await document.delete(), then the answer; a delete that
\* raises is answered 500
DeleteRecord(r, db_raised) ==
    /\ pc[r] = "deleting"
    /\ IF db_raised
       THEN /\ UNCHANGED documents
            /\ Answer(r, [req[r] EXCEPT !.db_raised = TRUE], 500, "Failed to delete document")
       ELSE /\ documents' = [id \in DOMAIN documents \ {document[r].id} |-> documents[id]]
            /\ Answer(r, req[r], 200, "deleted")
    /\ UNCHANGED <<settings, disk, document, clock, last>>
    /\ UNCHANGED callVars

\* one stored document of alice, in status uploaded; its file may be missing
InitRequests ==
    /\ NoCallOfValidation
    /\ settings \in [max_file_size : {0}, skip_file_validation : {FALSE},
                     strict_pdf_validation : {FALSE}, run_crew : BOOLEAN]
    /\ documents = [id \in {1} |-> UploadedDocument(FALSE, <<>>)]
    /\ disk \in {{1}, {}}
    /\ pc = [r \in Requests |-> "idle"]
    /\ req = [r \in Requests |-> NoHandlerRequest]
    /\ document = [r \in Requests |-> NoInstance]
    /\ clock = 0
    /\ last = NoCall

\* requests are served concurrently: their steps interleave at every await
NextRequests ==
    \E r \in Requests :
        \/ \E current_user \in Users : GetDocument(r, current_user)
        \/ \E current_user \in Users : AnalyzeLoad(r, current_user)
        \/ AnalyzeStartProcessing(r)
        \/ \E outcome \in AnalyzerOutcomes : AnalyzeRecord(r, outcome)
        \/ AnalyzeFail(r)
        \/ \E current_user \in Users, removal \in {"removed", "raises"} :
                DeleteRemoveFile(r, current_user, removal)
        \/ \E db_raised \in BOOLEAN : DeleteRecord(r, db_raised)

SpecRequests == InitRequests /\ [][NextRequests]_vars

-----------------------------------------------------------------------------
(* models/document.py: find_by_hash *)

\* FinancialDocument.find_by_hash(file_hash): find_one({"file_hash": file_hash});
\* the ids of the stored documents it can return
find_by_hash(file_hash) ==
    {id \in DOMAIN documents : documents[id].file_hash = file_hash}

\* the dedup check made for owner user_id with find_by_hash
FindByHash(user_id, file_hash) ==
    /\ \E returned \in (IF find_by_hash(file_hash) = {} THEN {0}
                         ELSE find_by_hash(file_hash)) :
            last' = [NoCall EXCEPT !.op = "find_by_hash", !.user_id = user_id,
                                   !.file_hash = file_hash, !.returned = returned]
    /\ UNCHANGED <<settings, documents, disk, pc, req, document, clock>>
    /\ UNCHANGED callVars

\* the hashes of the two clean files and of a file never stored
QueryHashes ==
    {Digest("sha256", UploadFiles[k].content) : k \in {"clean", "other", "launch"}}

\* stored documents: each owner may have stored each of the two clean files
StoredCandidates ==
    [id \in 1..4 |->
        FinancialDocument(id, ReportPdf,
                          IF id <= 2 THEN "alice" ELSE "bob", id,
                          Len(UploadFiles[IF id % 2 = 1 THEN "clean" ELSE "other"].content),
                          Digest("sha256",
                                 UploadFiles[IF id % 2 = 1 THEN "clean" ELSE "other"].content),
                          FALSE, 0)]

InitQuery ==
    /\ NoCallOfValidation
    /\ settings = NoSettings
    /\ \E ids \in SUBSET (1..4) : 
        /\ documents = [id \in ids |-> StoredCandidates[id]]
        /\ disk = ids
    /\ pc = <<>>
    /\ req = <<>>
    /\ document = <<>>
    /\ clock = 0
    /\ last = NoCall

NextQuery == \E user_id \in Owners, file_hash \in QueryHashes : FindByHash(user_id, file_hash)

SpecQuery == InitQuery /\ [][NextQuery]_vars

-----------------------------------------------------------------------------
(* tools/custom_tool.py: FinancialDocumentTool *)

\* "EURO", "POUND" and "YEN" stand for the three currency signs
financial_keywords ==
    <<<<"b","a","l","a","n","c","e"," ","s","h","e","e","t">>,
      <<"i","n","c","o","m","e"," ","s","t","a","t","e","m","e","n","t">>,
      <<"c","a","s","h"," ","f","l","o","w">>,
      <<"s","t","a","t","e","m","e","n","t"," ","o","f"," ","e","q","u","i","t","y">>,
      <<"p","r","o","f","i","t"," ","a","n","d"," ","l","o","s","s">>,
      <<"p","&","l">>,
      <<"f","i","n","a","n","c","i","a","l"," ","p","o","s","i","t","i","o","n">>,
      <<"s","t","a","t","e","m","e","n","t"," ","o","f"," ","o","p","e","r","a","t","i","o","n","s">>,
      <<"r","e","v","e","n","u","e">>,
      <<"n","e","t"," ","i","n","c","o","m","e">>,
      <<"g","r","o","s","s"," ","p","r","o","f","i","t">>,
      <<"e","b","i","t","d","a">>,
      <<"a","s","s","e","t","s">>,
      <<"l","i","a","b","i","l","i","t","i","e","s">>,
      <<"e","q","u","i","t","y">>,
      <<"s","h","a","r","e","h","o","l","d","e","r","s">>,
      <<"e","a","r","n","i","n","g","s"," ","p","e","r"," ","s","h","a","r","e">>,
      <<"e","p","s">>,
      <<"r","e","t","u","r","n"," ","o","n"," ","e","q","u","i","t","y">>,
      <<"d","e","b","t"," ","t","o"," ","e","q","u","i","t","y">>,
      <<"c","u","r","r","e","n","t"," ","r","a","t","i","o">>,
      <<"q","u","i","c","k"," ","r","a","t","i","o">>,
      <<"o","p","e","r","a","t","i","n","g"," ","m","a","r","g","i","n">>,
      <<"a","c","c","o","u","n","t","s"," ","r","e","c","e","i","v","a","b","l","e">>,
      <<"a","c","c","o","u","n","t","s"," ","p","a","y","a","b","l","e">>,
      <<"i","n","v","e","n","t","o","r","y">>,
      <<"d","e","p","r","e","c","i","a","t","i","o","n">>,
      <<"a","m","o","r","t","i","z","a","t","i","o","n">>,
      <<"w","o","r","k","i","n","g"," ","c","a","p","i","t","a","l">>,
      <<"r","e","t","a","i","n","e","d"," ","e","a","r","n","i","n","g","s">>,
      <<"d","i","v","i","d","e","n","d","s">>,
      <<"c","a","p","i","t","a","l"," ","e","x","p","e","n","d","i","t","u","r","e">>,
      <<"c","a","p","e","x">>,
      <<"o","p","e","r","a","t","i","n","g"," ","c","a","s","h"," ","f","l","o","w">>,
      <<"a","n","n","u","a","l"," ","r","e","p","o","r","t">>,
      <<"q","u","a","r","t","e","r","l","y"," ","r","e","p","o","r","t">>,
      <<"1","0","-","k">>,
      <<"1","0","-","q">>,
      <<"f","i","n","a","n","c","i","a","l"," ","s","t","a","t","e","m","e","n","t","s">>,
      <<"a","u","d","i","t","e","d">>,
      <<"u","n","a","u","d","i","t","e","d">>,
      <<"c","o","n","s","o","l","i","d","a","t","e","d">>,
      <<"f","i","s","c","a","l"," ","y","e","a","r">>,
      <<"f","y">>,
      <<"q","1">>,
      <<"q","2">>,
      <<"q","3">>,
      <<"q","4">>,
      <<"$">>,
      <<"EURO">>,
      <<"POUND">>,
      <<"YEN">>,
      <<"u","s","d">>,
      <<"e","u","r">>,
      <<"g","b","p">>,
      <<"m","i","l","l","i","o","n">>,
      <<"b","i","l","l","i","o","n">>,
      <<"t","h","o","u","s","a","n","d">>,
      <<"g","a","a","p">>,
      <<"i","f","r","s">>,
      <<"s","e","c">>,
      <<"f","a","s","b">>,
      <<"i","a","s","b">>,
      <<"s","o","x">>,
      <<"s","a","r","b","a","n","e","s","-","o","x","l","e","y">>>>

Digits == {"0", "1", "2", "3", "4", "5", "6", "7", "8", "9"}

\* the first index from i on whose character is not in class (Len(s) + 1 when
\* there is none): where a greedy run of class characters started at i ends
RunEnd(s, i, class) ==
    CHOOSE k \in i..(Len(s) + 1) :
        /\ k = Len(s) + 1 \/ s[k] \notin class
        /\ \A j \in i..(k - 1) : s[j] \in class

\* \.?\d* at j, after a run of digits and commas: the index after it
FractionEnd(s, j) ==
    IF j <= Len(s) /\ s[j] = "." THEN RunEnd(s, j + 1, Digits) ELSE j

\* [\d,]+\.?\d* matched at i: the index after the match, 0 without a match
NumberEnd(s, i) ==
    IF i > Len(s) \/ s[i] \notin Digits \cup {","} THEN 0
    ELSE FractionEnd(s, RunEnd(s, i, Digits \cup {","}))

\* s continues at i with word w, in any case
WordAt(s, i, w) ==
    /\ i + Len(w) - 1 <= Len(s)
    /\ \A j \in 1..Len(w) : LowerChar(s[i + j - 1]) = w[j]

ScaleWords ==
    {<<"m","i","l","l","i","o","n">>, <<"b","i","l","l","i","o","n">>,
     <<"t","h","o","u","s","a","n","d">>}

\* (million|billion|thousand) matched at w: the index after the word, 0
\* without a match
ScaleWordEnd(s, w) ==
    IF \E word \in ScaleWords : WordAt(s, w, word)
    THEN w + Len(CHOOSE word \in ScaleWords : WordAt(s, w, word))
    ELSE 0

\* \s*(million|billion|thousand) after a number that ends before e (e = 0:
\* there was no number)
ScaleEnd(s, e) ==
    IF e = 0 THEN 0 ELSE ScaleWordEnd(s, RunEnd(s, e, Whitespace))

\* \) after a number that ends before e (e = 0: there was no number)
ParenEnd(s, e) ==
    IF e # 0 /\ e <= Len(s) /\ s[e] = ")" THEN e + 1 ELSE 0

\* the three currency_patterns matched at i: the index after the match, 0
\* without a match
PatternEnd(n, s, i) ==
    IF n = 1
    THEN \* \$[\d,]+\.?\d*
         IF s[i] = "$" THEN NumberEnd(s, i + 1) ELSE 0
    ELSE IF n = 2
    THEN \* [\d,]+\.?\d*\s*(million|billion|thousand), re.IGNORECASE
         ScaleEnd(s, NumberEnd(s, i))
    ELSE \* \(\$?[\d,]+\.?\d*\)
         IF s[i] # "(" THEN 0
         ELSE ParenEnd(s, NumberEnd(s, IF i + 1 <= Len(s) /\ s[i + 1] = "$"
                                       THEN i + 2 ELSE i + 1))

\* the least element of a set of indices, 0 for the empty set
Leftmost(starts) ==
    IF starts = {} THEN 0
    ELSE CHOOSE k \in starts : \A j \in starts : k <= j

RECURSIVE findall(_, _, _)
\* the matches of pattern n in s counted from a first match at index first
\* (0: there is none): the search goes on after the match
MatchesFrom(n, s, first) ==
    IF first = 0 THEN 0 ELSE 1 + findall(n, s, PatternEnd(n, s, first))

\* len(re.findall(pattern n, s)) from index i on: the leftmost match is taken
\* and the search goes on after it (matches do not overlap)
findall(n, s, i) ==
    MatchesFrom(n, s, Leftmost({k \in i..Len(s) : PatternEnd(n, s, k) > 0}))

\* the two capped scores and the decision, from the number of keywords and
\* the number of amounts found
ValidationResult(keyword_count, financial_numbers) ==
    LET keyword_score == IF keyword_count * 5 < 60 THEN keyword_count * 5 ELSE 60
        number_score == IF financial_numbers * 10 < 40 THEN financial_numbers * 10 ELSE 40
    IN  [is_financial |-> keyword_score + number_score >= 30 /\ keyword_count >= 3,
         confidence |-> IF keyword_score + number_score < 100
                        THEN keyword_score + number_score ELSE 100,
         keyword_count |-> keyword_count,
         financial_numbers_found |-> financial_numbers]

\* _validate_financial_document: keywords found in the lower-cased text and
\* amounts found by the three patterns
_validate_financial_document(content) ==
    ValidationResult(
        Len(SelectSeq(financial_keywords,
                      LAMBDA keyword : contains(lower(content), keyword))),
        findall(1, content, 1) + findall(2, content, 1) + findall(3, content, 1))

\* the json _run returns for an error
ToolError ==
    [status |-> "error", is_financial_document |-> FALSE, confidence_score |-> 0,
     keyword_count |-> 0, financial_numbers_found |-> 0]

\* the json _run returns for a document it could read
ToolSuccess(validation_result) ==
    [status |-> "success",
     is_financial_document |-> validation_result.is_financial,
     confidence_score |-> validation_result.confidence,
     keyword_count |-> validation_result.keyword_count,
     financial_numbers_found |-> validation_result.financial_numbers_found]

\* _run(document_path): exists is os.path.exists(document_path),
\* extracted_content what the extractor of the file type returns for the file
_run(document_path, exists, extracted_content) ==
    IF ~exists THEN ToolError
    ELSE IF lower(PathSuffix(document_path))
                \notin {<<".","p","d","f">>, <<".","x","l","s","x">>,
                        <<".","x","l","s">>, <<".","c","s","v">>}
    THEN ToolError
    ELSE ToolSuccess(_validate_financial_document(extracted_content))

\* the text of the documents: a recipe, a financial report, three keywords
\* without amounts, six keywords without amounts, amounts with two keywords,
\* fourteen keywords and five amounts
ExtractedContents ==
    [recipe |->
        <<"R","e","c","i","p","e",":"," ","2"," ","c","u","p","s"," ","f","l",
        "o","u","r",","," ","t","h","e","n"," ","f","o","l","l","o","w"," ","t",
        "h","e"," ","s","t","e","p","s">>,
     report |->
        <<"B","A","L","A","N","C","E"," ","S","H","E","E","T"," ","R","e","v",
        "e","n","u","e"," ","$","1","8",",","5","0","0",",","0","0","0"," ","N",
        "e","t"," ","i","n","c","o","m","e"," ","$","1",",","3","2","0",",","0",
        "0","0"," ","T","o","t","a","l"," ","A","s","s","e","t","s"," ","$","1",
        "4",",","8","5","0",",","0","0","0"," ","(","E","P","S",")"," ","$","2",
        ".","6","4"," ","l","o","s","s"," ","(","1",",","2","0","0",")"," ","o",
        "f"," ","3",".","5"," ","M","i","l","l","i","o","n">>,
     three_keywords |->
        <<"r","e","v","e","n","u","e"," ","a","n","d"," ","e","q","u","i","t",
        "y"," ","f","o","r"," ","F","Y">>,
     six_keywords |->
        <<"A","u","d","i","t","e","d"," ","c","o","n","s","o","l","i","d","a",
        "t","e","d"," ","r","e","v","e","n","u","e",","," ","a","s","s","e","t",
        "s",","," ","l","i","a","b","i","l","i","t","i","e","s",","," ","e","q",
        "u","i","t","y">>,
     amounts_only |->
        <<"(","1","0","0",")"," ","(","2","0","0",")"," ","(","3","0","0",")",
        " ","G","A","A","P"," ","I","F","R","S">>,
     many_keywords |->
        <<"a","n","n","u","a","l"," ","r","e","p","o","r","t",","," ","f","i",
        "s","c","a","l"," ","y","e","a","r",","," ","q","1"," ","q","2"," ","q",
        "3"," ","q","4",":"," ","r","e","v","e","n","u","e",","," ","e","b","i",
        "t","d","a",","," ","c","a","p","e","x",","," ","i","n","v","e","n","t",
        "o","r","y",","," ","d","i","v","i","d","e","n","d","s",","," ","d","e",
        "p","r","e","c","i","a","t","i","o","n",","," ","a","m","o","r","t","i",
        "z","a","t","i","o","n"," ","$","1"," ","$","2"," ","$","3"," ","$","4",
        " ","$","5">>]

DocumentPaths ==
    {<<"u","p","l","o","a","d","s","/","r","e","p","o","r","t",".","p","d","f">>,
     <<"u","p","l","o","a","d","s","/","R","E","P","O","R","T",".","P","D","F">>,
     <<"t","e","s","t","_","d","o","c","u","m","e","n","t","s","/","f","i","n",
     "a","n","c","i","a","l","_","r","e","p","o","r","t",".","t","x","t">>,
     <<"d","a","t","a",".","c","s","v">>,
     <<"b","o","o","k",".","x","l","s","x">>,
     <<"b","o","o","k",".","x","l","s">>}

\* one call of _run: filename holds document_path, file_content the text of
\* the document, disk the paths that exist, result the json returned
InitTool ==
    /\ filename \in DocumentPaths
    /\ \E k \in DOMAIN ExtractedContents : file_content = ExtractedContents[k]
    /\ disk \in {{}, {filename}}
    /\ phase = "called"
    /\ result = ToolError
    /\ max_size_bytes = 0
    /\ strict_validation = FALSE
    /\ password = None
    /\ magic_lib = [raises |-> FALSE, mime |-> "application/pdf"]
    /\ pdf = [parse |-> "ok", is_encrypted |-> FALSE, user_password |-> "",
              decrypt_raises |-> FALSE, num_pages |-> 1, trailer |-> "no_size",
              size |-> 0]
    /\ settings = NoSettings
    /\ documents = <<>>
    /\ pc = <<>>
    /\ req = <<>>
    /\ document = <<>>
    /\ clock = 0
    /\ last = NoCall

Run ==
    /\ phase = "called"
    /\ result' = _run(filename, filename \in disk, file_content)
    /\ phase' = "returned"
    /\ UNCHANGED <<file_content, filename, max_size_bytes, strict_validation,
                   password, magic_lib, pdf>>
    /\ UNCHANGED storeVars

NextTool == Run

SpecTool == InitTool /\ [][NextTool]_vars

-----------------------------------------------------------------------------
(* Rejection reasons *)

\* the enumerated reason of a raised validation error: the taxonomy of the
\* specification, read off the message of the exception
ReasonOf(e) ==
    CASE e.msg \in {"Filename cannot be empty", "Only PDF files are allowed",
                    "Invalid filename: path traversal detected",
                    "Filename too long (max 255 characters)",
                    "Filename contains invalid characters"} -> "FilenameInvalid"
      [] e.msg = "File size exceeds {max_size_mb:.1f}MB limit" -> "SizeExceeded"
      [] e.msg \in {"File is empty", "Empty file content"} -> "Empty"
      [] e.msg = "Invalid PDF file signature. File is not a valid PDF." -> "SignatureMismatch"
      [] e.msg = "Invalid PDF structure: {e}" -> "StructureInvalid"
      [] e.msg = "Password is required for this encrypted PDF" -> "PasswordRequired"
      [] e.msg = "Failed to decrypt PDF: {e}" -> "PasswordIncorrect"
      [] e.msg = "PDF has too many pages ({num_pages}). Maximum allowed: 1000"
            -> "PageLimitExceeded"
      [] e.msg = "PDF has too many objects ({obj_count}). Possible zip bomb."
            -> "ObjectLimitExceeded"
      [] e.msg \in {"Potentially dangerous content detected: {pattern}",
                    "File too small to be a valid PDF"} -> "MaliciousContentDetected"
      [] e.msg \in {"Failed to validate file type", "Failed to validate PDF structure",
                    "File validation failed due to unexpected error"}
            -> "InternalValidationError"
      [] OTHER -> "Unclassified"

Taxonomy ==
    {"FilenameInvalid", "SizeExceeded", "Empty", "SignatureMismatch", "StructureInvalid",
     "PasswordRequired", "PasswordIncorrect", "PageLimitExceeded", "ObjectLimitExceeded",
     "MaliciousContentDetected", "InternalValidationError"}

Returned == phase = "returned"

\* the call ran the named check (it was reached: every earlier check passed)
Ran(check) == \E i \in 1..Len(result.checks) : result.checks[i] = check

\* the check at which the call stopped
LastCheck == IF Len(result.checks) = 0 THEN "" ELSE result.checks[Len(result.checks)]

HasMagic(content) == startswith(content, Magic)

-----------------------------------------------------------------------------
(* C1..C10: the validation orchestrator *)

\* C1: a PDF that passes every check before the object count and whose trailer
\* /Size is readable and above MAX_PDF_OBJECTS is rejected with the
\* object-limit reason and never accepted.
C1_ObjectCeilingRejects ==
    (Returned /\ Ran("objects") /\ pdf.trailer = "size" /\ pdf.size > MAX_PDF_OBJECTS)
        => (~result.accepted /\ ReasonOf(result.exc) = "ObjectLimitExceeded")

\* C2: a buffer that contains one of the five hard-block patterns, in any
\* letter case, is never accepted, whatever the filename, ceiling, strict mode,
\* password and the outcome of the signature and structure checks (stated as:
\* an accepted buffer contains none of them).
C2_HardBlockNeverAccepted ==
    (Returned /\ result.accepted)
        => LET lc == lower(file_content) IN
           \A k \in 1..Len(DANGEROUS_PDF_PATTERNS) :
               ~contains(lc, lower(DANGEROUS_PDF_PATTERNS[k]))

\* C2 witness: a well-formed, unencrypted PDF under a valid filename that holds
\* /LAUNCH in upper case only is rejected by the pattern scan.
C2_Witness ==
    /\ Returned
    /\ HasMagic(file_content)
    /\ contains(file_content, <<"/","L","A","U","N","C","H">>)
    /\ ~contains(file_content, DANGEROUS_PDF_PATTERNS[1])
    /\ Len(file_content) >= MIN_PDF_BYTES
    /\ pdf.parse = "ok" /\ ~pdf.is_encrypted /\ pdf.num_pages <= MAX_PDF_PAGES
    /\ LastCheck = "patterns"
    /\ ~result.accepted
    /\ result.exc.cls = "MaliciousFileError"


FilenameValid == ~Raised(validate_filename(filename))

SizeWithinBounds == 0 < Len(file_content) /\ Len(file_content) <= max_size_bytes

\* C3 as stated: a buffer without the magic prefix is rejected with the
\* signature-mismatch reason whatever the filename's extension and MIME type.
C3_Original ==
    (Returned /\ ~HasMagic(file_content))
        => (~result.accepted /\ ReasonOf(result.exc) = "SignatureMismatch")

\* C3 amended: a buffer without the magic prefix is never accepted; the reason
\* is signature-mismatch when the filename is valid and the buffer is neither
\* empty nor over the ceiling, whatever strict mode and the sniffed MIME type,
\* and otherwise the reason of the earlier failing filename or size check.
C3_NoMagicRejected ==
    (Returned /\ ~HasMagic(file_content))
        => /\ ~result.accepted
           /\ IF FilenameValid /\ SizeWithinBounds
              THEN ReasonOf(result.exc) = "SignatureMismatch"
              ELSE ReasonOf(result.exc) \in {"FilenameInvalid", "SizeExceeded", "Empty"}

\* C3 witness: a .pdf filename, strict mode, content sniffed as application/pdf,
\* a header that differs from the magic prefix in letter case only: rejected at
\* the signature check.
C3_Witness ==
    /\ Returned
    /\ FilenameValid /\ SizeWithinBounds
    /\ startswith(file_content, <<"%","p","d","f","-","1",".">>)
    /\ strict_validation /\ magic_lib.mime = "application/pdf"
    /\ LastCheck = "signature"
    /\ ReasonOf(result.exc) = "SignatureMismatch"

ParsingChecks == {"signature", "mime", "parse", "encryption", "pages", "patterns",
                  "objects", "hash"}

\* C4 as stated: a buffer over the ceiling is rejected as size-exceeded and no
\* later check runs; a buffer of exactly the ceiling is not rejected for size.
C4_Original ==
    Returned =>
        /\ Len(file_content) > max_size_bytes
            => /\ ~result.accepted
               /\ ReasonOf(result.exc) = "SizeExceeded"
               /\ \A c \in ParsingChecks : ~Ran(c)
        /\ Len(file_content) = max_size_bytes => ReasonOf(result.exc) # "SizeExceeded"

\* C4 amended: a buffer over the ceiling is never accepted and none of the
\* signature, MIME, structure, pattern and hash steps runs on it; the reason is
\* size-exceeded when the filename is valid and filename-invalid otherwise; a
\* buffer of exactly the ceiling is not rejected for size.
C4_OversizeStopsBeforeParsing ==
    Returned =>
        /\ Len(file_content) > max_size_bytes
            => /\ ~result.accepted
               /\ \A c \in ParsingChecks : ~Ran(c)
               /\ ReasonOf(result.exc) =
                    (IF FilenameValid THEN "SizeExceeded" ELSE "FilenameInvalid")
        /\ Len(file_content) = max_size_bytes => ReasonOf(result.exc) # "SizeExceeded"

\* C4 witness: an oversized buffer that is otherwise a valid PDF under a valid
\* filename is rejected at the size check.
C4_Witness ==
    /\ Returned
    /\ Len(file_content) > max_size_bytes
    /\ FilenameValid /\ HasMagic(file_content)
    /\ pdf.parse = "ok" /\ ~pdf.is_encrypted /\ pdf.num_pages <= MAX_PDF_PAGES
    /\ DangerousFound(file_content) = {}
    /\ result.checks = <<"filename", "size">>
    /\ ReasonOf(result.exc) = "SizeExceeded"

\* the supplied password opens the document
PasswordOpens == password.given /\ ~pdf.decrypt_raises /\ password.text = pdf.user_password

\* C5: for an encrypted PDF that reached the encryption check: no password gives
\* password-required; a supplied password that fails decryption, the empty
\* string included, gives password-incorrect; the correct password lets the
\* page, object and pattern checks run and the accepted verdict carries
\* is_password_protected = TRUE.
C5_EncryptedPasswordOutcomes ==
    (Returned /\ Ran("encryption") /\ pdf.is_encrypted) =>
        /\ ~password.given => ReasonOf(result.exc) = "PasswordRequired"
        /\ (password.given /\ ~PasswordOpens) => ReasonOf(result.exc) = "PasswordIncorrect"
        /\ PasswordOpens
            => /\ Ran("pages")
               /\ result.accepted => result.is_password_protected
               /\ (pdf.num_pages <= MAX_PDF_PAGES
                   /\ ~Raised(detect_malicious_patterns(file_content)))
                     => result.accepted


\* the order of checks the specification states
ClaimedOrder == <<"filename", "empty", "size", "signature", "mime", "parse",
                  "encryption", "pages", "objects", "patterns">>

\* the input fails the named check, taken on its own
Fails(check) ==
    CASE check = "filename" -> ~FilenameValid
      [] check = "empty" -> Len(file_content) = 0
      [] check = "size" -> Len(file_content) > max_size_bytes
      [] check = "signature" -> ~HasMagic(file_content)
      [] check = "mime" -> strict_validation /\ magic_lib.raises
      [] check = "parse" -> pdf.parse # "ok"
      [] check = "encryption" -> Raised(EncryptionCheck(password, pdf))
      [] check = "pages" -> pdf.num_pages > MAX_PDF_PAGES
      [] check = "objects" -> pdf.trailer = "size" /\ pdf.size > MAX_PDF_OBJECTS
      [] check = "patterns" -> Raised(detect_malicious_patterns(file_content))

\* the reason a failure of the named check is reported with
ReasonAt(check) ==
    CASE check = "filename" -> "FilenameInvalid"
      [] check = "empty" -> "Empty"
      [] check = "size" -> "SizeExceeded"
      [] check = "signature" -> "SignatureMismatch"
      [] check = "mime" -> "InternalValidationError"
      [] check = "parse" -> IF pdf.parse = "PdfReadError" THEN "StructureInvalid"
                            ELSE "InternalValidationError"
      [] check = "encryption" -> ReasonOf(EncryptionCheck(password, pdf))
      [] check = "pages" -> "PageLimitExceeded"
      [] check = "objects" -> "ObjectLimitExceeded"
      [] check = "patterns" -> "MaliciousContentDetected"

\* C6: the checks run in the fixed order filename, size bounds, signature, MIME
\* sniff, structural parse (encryption, page ceiling, object ceiling), pattern
\* scan, hash: an input that fails one or more checks is rejected with the
\* reason of the earliest failing check in that order, and an input that fails
\* none is accepted.
C6_EarliestFailingCheckReported ==
    Returned =>
        LET failing == {i \in 1..Len(ClaimedOrder) : Fails(ClaimedOrder[i])} IN
        IF failing = {} THEN result.accepted
        ELSE /\ ~result.accepted
             /\ ReasonOf(result.exc) =
                    ReasonAt(ClaimedOrder[CHOOSE i \in failing : \A j \in failing : i <= j])

\* the structural checks pass: readable, the encryption check passes, page and
\* object counts within their ceilings
StructureValid ==
    /\ pdf.parse = "ok"
    /\ ~Raised(EncryptionCheck(password, pdf))
    /\ pdf.num_pages <= MAX_PDF_PAGES
    /\ pdf.trailer = "size" => pdf.size <= MAX_PDF_OBJECTS

\* C7 as stated: a buffer that passes the filename, size, signature and
\* structural checks, holds no hard-block pattern and holds a soft-watch
\* pattern is accepted, and the pattern scan rejects only for a hard-block
\* pattern.
C7_Original ==
    Returned =>
        /\ (FilenameValid /\ SizeWithinBounds /\ HasMagic(file_content) /\ StructureValid
            /\ DangerousFound(file_content) = {} /\ SuspiciousFound(file_content) # {})
                => result.accepted
        /\ (~result.accepted /\ LastCheck = "patterns") => DangerousFound(file_content) # {}

\* C7 amended: a buffer of at least 100 bytes that passes the filename, size,
\* signature, MIME-sniff (strict mode) and structural checks, holds no
\* hard-block pattern and holds a soft-watch pattern is accepted; the pattern
\* scan rejects only for a hard-block pattern or for a buffer under 100 bytes.
C7_SoftWatchAccepted ==
    Returned =>
        /\ (FilenameValid /\ SizeWithinBounds /\ HasMagic(file_content) /\ StructureValid
            /\ ~(strict_validation /\ magic_lib.raises)
            /\ Len(file_content) >= MIN_PDF_BYTES
            /\ DangerousFound(file_content) = {} /\ SuspiciousFound(file_content) # {})
                => result.accepted
        /\ (~result.accepted /\ LastCheck = "patterns")
                => (DangerousFound(file_content) # {} \/ Len(file_content) < MIN_PDF_BYTES)

\* C7 witness: an accepted buffer that holds /JavaScript and /JS.
C7_Witness ==
    /\ Returned
    /\ result.accepted
    /\ contains(file_content, SUSPICIOUS_PDF_PATTERNS[1])
    /\ Ran("patterns")

\* C8: every call ends accepted or rejected with a reason of the taxonomy, and
\* a call in which a library raised an unexpected internal error ends with the
\* internal-error reason, never accepted and never with a content-based reason.
C8_InternalErrorsClassified ==
    Returned =>
        /\ result.accepted \/ ReasonOf(result.exc) \in Taxonomy
        /\ result.faults # {}
            => (~result.accepted /\ ReasonOf(result.exc) = "InternalValidationError")

\* the verdict of the same call with strict mode flipped
OtherModeResult ==
    comprehensive_file_validation(file_content, filename, max_size_bytes,
                                  ~strict_validation, password, magic_lib, pdf)

SameVerdict(a, b) ==
    /\ a.accepted = b.accepted
    /\ a.exc = b.exc
    /\ a.file_hash = b.file_hash
    /\ a.is_password_protected = b.is_password_protected

-----------------------------------------------------------------------------
(* C11: the filename rule *)

\* the control characters among the characters of FilenameInputs
ControlChars == {"NUL", "SOH", "\n", "\t"}

\* the filename rule as claimed: non-empty, extension .pdf in any letter case,
\* no '..', '/' or '\\', no NUL or other control character, at most 255 long
ClaimedFilenameValid(name) ==
    /\ Len(name) > 0
    /\ lower(PathSuffix(name)) = <<".","p","d","f">>
    /\ ~contains(name, <<".",".">>) /\ ~contains(name, <<"/">>) /\ ~contains(name, <<"\\">>)
    /\ \A i \in 1..Len(name) : name[i] \notin ControlChars
    /\ Len(name) <= MAX_FILENAME_LEN

\* C11: a filename passes the filename check exactly when it is non-empty, has
\* the extension .pdf (case-insensitive), holds no path-traversal sequence and
\* no NUL or other control character and is at most 255 long; every other
\* filename is rejected as filename-invalid and no later check runs.
C11_FilenameAcceptedIff ==
    Returned =>
        IF ClaimedFilenameValid(filename)
        THEN Ran("size")
        ELSE /\ ~result.accepted
             /\ ReasonOf(result.exc) = "FilenameInvalid"
             /\ result.checks = <<"filename">>

-----------------------------------------------------------------------------
(* C12..C15: upload_document and the stored documents *)

\* two stored documents of one owner with one content hash
Duplicates(a, b) ==
    /\ a # b
    /\ documents[a].user_id = documents[b].user_id
    /\ documents[a].file_hash = documents[b].file_hash

\* C12 as stated: in every reachable state, for every interleaving of
\* upload_document requests, no two stored documents have the same owner and
\* the same content hash.
C12_Original ==
    \A a, b \in DOMAIN documents : ~Duplicates(a, b)

\* C12 amended: two stored documents have the same owner and content hash only
\* if their uploads overlapped: neither record was stored yet when the
\* duplicate query of the other upload ran.
C12_DuplicatesOnlyFromOverlap ==
    \A a, b \in DOMAIN documents :
        Duplicates(a, b) => (a \notin req[b].saw /\ b \notin req[a].saw)

\* C12 witness: a second upload of the bytes of a stored document by its owner,
\* made after the record was stored, was answered 409 and stored nothing.
C12_Witness ==
    /\ 1 \in DOMAIN documents
    /\ pc[2] = "done"
    /\ req[2].user_id = req[1].user_id
    /\ req[2].file_hash = req[1].file_hash
    /\ 1 \in req[2].saw
    /\ req[2].status_code = 409
    /\ 2 \notin DOMAIN documents

\* the hash of the bytes request r uploaded
UploadedHash(r) == Digest("sha256", UploadFiles[req[r].file].content)

C14_FindByHashOwnerScoped ==
    last.op = "find_by_hash" =>
        IF last.returned # 0
        THEN /\ documents[last.returned].user_id = last.user_id
             /\ documents[last.returned].file_hash = last.file_hash
        ELSE \A id \in DOMAIN documents :
                ~(documents[id].user_id = last.user_id
                  /\ documents[id].file_hash = last.file_hash)

\* whether comprehensive_file_validation accepts each file of UploadFiles, in
\* either mode, under the upload ceiling
AcceptedByValidation ==
    [k \in FileKeys, strict \in BOOLEAN |->
        comprehensive_file_validation(UploadFiles[k].content, UploadFiles[k].filename,
                                      UploadCeiling, strict, UploadFiles[k].password,
                                      UploadFiles[k].magic_lib, UploadFiles[k].pdf).accepted]

\* validation accepts the bytes and filename request r uploaded
BytesAccepted(r) == AcceptedByValidation[req[r].file, settings.strict_pdf_validation]

\* request r has left no record and no file
NothingKept(r) == r \notin DOMAIN documents /\ r \notin disk

\* C15 as stated: under every configuration, an upload whose bytes validation
\* does not accept creates no record and persists no file.
C15_Original ==
    \A r \in Requests : (pc[r] # "idle" /\ ~BytesAccepted(r)) => NothingKept(r)

\* C15 amended: with skip_file_validation off, an upload whose bytes validation
\* does not accept creates no record and persists no file; with
\* skip_file_validation on, only an upload over the size ceiling is kept out.
C15_NoRecordWithoutAcceptance ==
    \A r \in Requests :
        pc[r] # "idle" =>
            IF settings.skip_file_validation
            THEN Len(UploadFiles[req[r].file].content) > settings.max_file_size
                    => NothingKept(r)
            ELSE ~BytesAccepted(r) => NothingKept(r)

\* C15 witness: with validation on, an upload holding /Launch was answered 400
\* and left nothing, and an upload of a clean PDF has its record and its file.
C15_Witness ==
    /\ ~settings.skip_file_validation
    /\ pc[1] = "done" /\ req[1].file = "launch" /\ req[1].status_code = 400
    /\ NothingKept(1)
    /\ pc[2] = "done" /\ req[2].file = "clean" /\ req[2].status_code = 200
    /\ 2 \in DOMAIN documents /\ 2 \in disk

-----------------------------------------------------------------------------
(* C16..C20: the lifecycle methods *)

\* the stored document of SpecLifecycle, before and after a step
StoredDoc == documents[1]
StoredDocAfter == documents'[1]

\* the instance the calls of SpecLifecycle are made on, before and after a step
Held == document[1]
HeldAfter == document'[1]

\* the step is a call of the named method
Called(op) == last'.op = op /\ last'.caller = 1

\* the instance the call is made on is the stored record as last read or saved
InSync == Held = StoredDoc

\* the status changes the lifecycle allows
AllowedStatusChanges ==
    {<<"uploaded", "processing">>, <<"processing", "completed">>,
     <<"processing", "failed">>, <<"completed", "processing">>,
     <<"failed", "processing">>, <<"uploaded", "failed">>}

\* C16: over any sequence of start_processing, complete_processing,
\* fail_processing, archive and unarchive calls the stored status changes only
\* along uploaded -> processing, processing -> completed, processing -> failed,
\* completed or failed -> processing and uploaded -> failed.
C16_StatusChangesAllowed ==
    [][StoredDocAfter.status # StoredDoc.status
        => <<StoredDoc.status, StoredDocAfter.status>> \in AllowedStatusChanges]_vars

\* the fields C17 names as left alone
SameResultsTagsFlagsAndFile(a, b) ==
    /\ a.analysis_results = b.analysis_results
    /\ a.confidence_score = b.confidence_score
    /\ a.tags = b.tags
    /\ a.is_archived = b.is_archived
    /\ a.file_hash = b.file_hash
    /\ a.file_path = b.file_path

\* C17: start_processing, from uploaded or as a re-analyze from completed or
\* failed, sets status to processing, processing_started_at to the current time
\* and clears processing_error, and leaves analysis_results, confidence_score,
\* tags, is_archived, content hash and file location as they were: on the
\* instance always, and on the stored record when the call is made on an
\* instance equal to the stored record (the save then never raises).
C17_StartProcessingEffect ==
    [][Called("start_processing") =>
        /\ HeldAfter.status = "processing"
        /\ HeldAfter.processing_started_at = Num(clock)
        /\ HeldAfter.processing_error = NoText
        /\ SameResultsTagsFlagsAndFile(HeldAfter, Held)
        /\ InSync =>
            /\ ~last'.raised
            /\ StoredDocAfter = HeldAfter
            /\ SameResultsTagsFlagsAndFile(StoredDocAfter, StoredDoc)]_vars

\* C17 witness: a re-analyze of a completed document: the stored record is in
\* processing, started now, and still holds the results and score of the
\* completed run.
C17_Witness ==
    /\ last.op = "start_processing" /\ ~last.raised
    /\ document[1] = documents[1]
    /\ documents[1].status = "processing"
    /\ documents[1].processing_started_at = Num(clock)
    /\ documents[1].processing_completed_at.given
    /\ documents[1].analysis_results # {}
    /\ documents[1].confidence_score = Num(85)

ScoreInRange(doc) ==
    doc.confidence_score.given
        => (SCORE_MIN <= doc.confidence_score.value /\ doc.confidence_score.value <= SCORE_MAX)

\* C18: complete_processing with analysis results and a score within [0,1]
\* stores status completed, processing_completed_at, the results and the score
\* and clears processing_error; with a score outside [0,1] the call is refused
\* and the stored record is as before; every stored confidence_score is within
\* [0,1].
C18_CompleteProcessingEffect ==
    [][/\ ScoreInRange(StoredDocAfter)
       /\ Called("complete_processing") =>
            IF SCORE_MIN <= last'.confidence_score /\ last'.confidence_score <= SCORE_MAX
            THEN /\ ~last'.raised
                 /\ StoredDocAfter.status = "completed"
                 /\ StoredDocAfter.processing_completed_at = Num(clock)
                 /\ StoredDocAfter.analysis_results = last'.analysis_results
                 /\ StoredDocAfter.confidence_score = Num(last'.confidence_score)
                 /\ StoredDocAfter.processing_error = NoText
            ELSE /\ last'.raised
                 /\ StoredDocAfter = StoredDoc]_vars

\* C18 witness: complete_processing with score 1.01 on a document in
\* processing raised, and the stored record is still in processing, without
\* results or score.
C18_Witness ==
    /\ last.op = "complete_processing" /\ last.raised
    /\ last.confidence_score = SCORE_MAX + 1
    /\ document[1].status = "completed"
    /\ documents[1].status = "processing"
    /\ documents[1].analysis_results = {}
    /\ ~documents[1].confidence_score.given
    /\ ~documents[1].processing_completed_at.given

\* C19: fail_processing with a non-empty message stores status failed,
\* processing_completed_at and exactly that message as processing_error, and
\* leaves analysis_results and confidence_score as they were; with an empty
\* message the call is refused and the document is unchanged.
C19_FailProcessingEffect ==
    [][Called("fail_processing") =>
        IF Len(last'.error_message) > 0
        THEN /\ StoredDocAfter.status = "failed"
             /\ StoredDocAfter.processing_completed_at = Num(clock)
             /\ StoredDocAfter.processing_error = Text(last'.error_message)
             /\ StoredDocAfter.analysis_results = StoredDoc.analysis_results
             /\ StoredDocAfter.confidence_score = StoredDoc.confidence_score
        ELSE /\ StoredDocAfter = StoredDoc
             /\ HeldAfter = Held]_vars

\* C20: archive and unarchive change nothing but is_archived, which they set
\* to TRUE and to FALSE: on the instance always, and on the stored record, in
\* every status, when the call is made on an instance equal to the stored
\* record; archiving an archived document leaves it as it was.
C20_ArchiveFlagOnly ==
    [][(Called("archive") \/ Called("unarchive")) =>
        LET flag == Called("archive") IN
        /\ HeldAfter = [Held EXCEPT !.is_archived = flag]
        /\ StoredDocAfter \in {StoredDoc, [StoredDoc EXCEPT !.is_archived = flag]}
        /\ InSync =>
            /\ ~last'.raised
            /\ StoredDocAfter = [StoredDoc EXCEPT !.is_archived = flag]
            /\ (StoredDoc.is_archived = flag) => StoredDocAfter = StoredDoc]_vars

\* C20 witness: a document archived while in processing.
C20_Witness ==
    /\ last.op = "archive" /\ ~last.raised
    /\ documents[1].is_archived
    /\ documents[1].status = "processing"
    /\ document[1] = documents[1]

-----------------------------------------------------------------------------
(* C21: processing_duration *)

\* processing_duration of doc is defined exactly when both times are present,
\* and is then their difference
DurationAsClaimed(doc) ==
    LET both == doc.processing_started_at.given /\ doc.processing_completed_at.given
        d == processing_duration(doc)
    IN  /\ d.given <=> both
        /\ both => d.value = doc.processing_completed_at.value
                                - doc.processing_started_at.value
        /\ ~both => d = NoneNum

\* C21: processing_duration is defined exactly when processing_started_at and
\* processing_completed_at are both present and is then their difference, and
\* is undefined otherwise; complete_processing with score 0.92 on a document
\* that start_processing moved from uploaded to processing stores status
\* completed, and the duration is the time from that start to this completion.
C21_ProcessingDuration ==
    [][/\ DurationAsClaimed(StoredDoc) /\ DurationAsClaimed(StoredDocAfter)
       /\ DurationAsClaimed(Held) /\ DurationAsClaimed(HeldAfter)
       /\ (/\ Called("complete_processing")
           /\ last'.confidence_score = 92
           /\ InSync
           /\ StoredDoc.status = "processing"
           /\ ~StoredDoc.processing_completed_at.given)
          => /\ StoredDocAfter.status = "completed"
             /\ StoredDocAfter.confidence_score = Num(92)
             /\ processing_duration(StoredDocAfter)
                    = Num(clock - StoredDoc.processing_started_at.value)]_vars

\* C21 witness: uploaded, start_processing at time 0, complete_processing with
\* score 0.92 at time 1: the stored document is completed and its duration is 1.
C21_Witness ==
    /\ last.op = "complete_processing" /\ ~last.raised
    /\ last.confidence_score = 92
    /\ documents[1].status = "completed"
    /\ documents[1].processing_started_at = Num(0)
    /\ documents[1].processing_completed_at = Num(1)
    /\ processing_duration(documents[1]) = Num(1)

-----------------------------------------------------------------------------
(* C29: the order of the two processing times *)

\* C29: in every reachable state of the stored document, when
\* processing_started_at and processing_completed_at are both present the
\* completion is not earlier than the start, so processing_duration is not
\* negative.
C29_CompletedNotBeforeStarted ==
    (documents[1].processing_started_at.given /\ documents[1].processing_completed_at.given)
        => /\ documents[1].processing_completed_at.value
                >= documents[1].processing_started_at.value
           /\ processing_duration(documents[1]).value >= 0

-----------------------------------------------------------------------------
(* C22: tags *)

\* the tags of doc hold no duplicate and no empty tag, and each is trimmed and
\* lower case
TagsClean(doc) ==
    /\ \A i, j \in 1..Len(doc.tags) : i # j => doc.tags[i] # doc.tags[j]
    /\ \A i \in 1..Len(doc.tags) :
        /\ Len(doc.tags[i]) > 0
        /\ doc.tags[i] = strip(doc.tags[i])
        /\ doc.tags[i] = lower(doc.tags[i])

TagSet(doc) == {doc.tags[i] : i \in 1..Len(doc.tags)}

\* C22: after creating a document with any tag list and after any sequence of
\* add_tags and remove_tags the stored tags hold no duplicate and no empty tag
\* and each is trimmed and lower case; add_tags called again with the same
\* tags leaves the tag set as it was.
C22_TagsClean ==
    [][/\ TagsClean(StoredDoc)
       /\ TagsClean(StoredDocAfter)
       /\ (Called("add_tags") /\ last.op = "add_tags" /\ last.tags = last'.tags)
            => TagSet(StoredDocAfter) = TagSet(StoredDoc)]_vars

-----------------------------------------------------------------------------
(* C24: FinancialDocumentTool._run *)

\* the keywords and amounts found in the text of the document
KeywordsFound ==
    Cardinality({k \in 1..Len(financial_keywords) :
                    contains(lower(file_content), financial_keywords[k])})

AmountsFound ==
    findall(1, file_content, 1) + findall(2, file_content, 1) + findall(3, file_content, 1)

ClaimedConfidence ==
    (IF 5 * KeywordsFound < 60 THEN 5 * KeywordsFound ELSE 60)
        + (IF 10 * AmountsFound < 40 THEN 10 * AmountsFound ELSE 40)

\* C24: _run on an existing document, plain-text .txt files included, reports
\* is_financial_document = true exactly when the text has at least 3 keywords
\* and a confidence of at least 30, the confidence being
\* min(5 * keywords, 60) + min(10 * amounts, 40), within 0..100; for a path
\* that does not exist it returns status "error" with is_financial_document
\* false.
C24_FinancialDecision ==
    phase = "returned" =>
        IF filename \in disk
        THEN /\ result.is_financial_document
                    <=> (KeywordsFound >= 3 /\ ClaimedConfidence >= 30)
             /\ 0 <= ClaimedConfidence /\ ClaimedConfidence <= 100
        ELSE /\ result.status = "error"
             /\ ~result.is_financial_document

-----------------------------------------------------------------------------
(* C23, C25..C28, C30: the request handlers *)

\* request r is a delete_document request of the owner of the stored document
OwnerDeletes(r) ==
    /\ 1 \in DOMAIN documents
    /\ req'[r].op = "delete"
    /\ req'[r].user_id = documents[1].user_id

\* C23: delete_document by the owner first attempts to remove the file and
\* only then removes the record: after the file step the record is still
\* stored and the request goes on to the record whether the removal succeeded,
\* raised or found no file; the record step then removes the record and
\* answers 200 (unless document.delete() itself raises).
C23_DeleteSwallowsFileErrors ==
    [][\A r \in Requests :
        /\ (pc[r] = "idle" /\ OwnerDeletes(r)) =>
                /\ pc'[r] = "deleting"
                /\ documents' = documents
                /\ req'[r].removal \in {"removed", "raises", "no_file"}
                /\ req'[r].removal = "no_file" <=> documents[1].file_path \notin disk
                /\ disk' = IF req'[r].removal = "removed"
                           THEN disk \ {documents[1].file_path} ELSE disk
        /\ (pc[r] = "deleting" /\ pc'[r] = "done" /\ ~req'[r].db_raised) =>
                /\ 1 \notin DOMAIN documents'
                /\ req'[r].status_code = 200]_vars

\* C23 witness: os.remove raised, and the request still removed the record and
\* answered 200; the file is left on disk.
C23_Witness ==
    \E r \in Requests :
        /\ pc[r] = "done" /\ req[r].op = "delete"
        /\ req[r].removal = "raises"
        /\ req[r].status_code = 200
        /\ 1 \notin DOMAIN documents
        /\ 1 \in disk

\* C25: at the end of every upload_document request the record of the upload
\* is stored if and only if its file is on disk: both after an answer of 200,
\* neither after an error.
C25_RecordIffFile ==
    \A r \in Requests :
        pc[r] = "done" =>
            /\ r \in DOMAIN documents <=> r \in disk
            /\ r \in DOMAIN documents <=> req[r].status_code = 200

\* an analysis of the stored document is in flight in request r
InFlight(r) == pc[r] \in {"analyzing", "failing"}

\* C26: when no analysis request is in flight the stored document is not in
\* processing.
C26_NoneLeftInProcessing ==
    (1 \in DOMAIN documents /\ \A r \in Requests : ~InFlight(r) /\ pc[r] # "loaded")
        => documents[1].status # "processing"

\* C27: a run of analyze_document whose analyzer output held VALIDATION_FAILED
\* ends with the stored document failed, its processing_error "Document is not
\* a valid financial document", and the answer 400.
C27_ValidationFailedKept ==
    [][\A r \in Requests :
        (req[r].outcome = "VALIDATION_FAILED" /\ pc[r] = "failing" /\ pc'[r] = "done") =>
            /\ documents'[1].status = "failed"
            /\ documents'[1].processing_error = Text(NOT_FINANCIAL)
            /\ req'[r].status_code = 400]_vars

\* C28: at most one analysis run of a document is in flight, and a run writes
\* its outcome only onto a document in processing: a terminal status is not
\* replaced by the outcome of a run that started before it was set.
C28_OneRunInFlight ==
    [][/\ \A r, q \in Requests : (InFlight(r)' /\ InFlight(q)') => r = q
       /\ \A r \in Requests :
            (pc[r] = "analyzing" /\ pc'[r] # "analyzing" /\ documents' # documents)
                => documents[1].status = "processing"]_vars

\* the requester of request r may act on the stored document
Allowed(r) == req[r].user_id = "alice" \/ req[r].role = "admin"

\* request r ended with 500 at the access check
StoppedAtCheck(r) ==
    /\ req[r].status_code = 500
    /\ req[r].outcome = "none"
    /\ ~req[r].db_raised

\* C30: a get, analyze or delete request that found the document is denied
\* with 403 when its requester is neither the owner nor an administrator, and
\* goes on past the access check when the requester is the owner or an
\* administrator.
C30_OwnerOrAdminOnly ==
    \A r \in Requests :
        (pc[r] = "done" /\ req[r].detail # "Document not found") =>
            IF Allowed(r)
            THEN req[r].status_code # 403 /\ ~StoppedAtCheck(r)
            ELSE req[r].status_code = 403

====
